---- MODULE Spec2Model ----
(***************************************************************************)
(* Model of the flipdot protocol engine: the controller-side Sign driver   *)
(* (src/src/sign.rs), the VirtualSign / VirtualSignBus state machines      *)
(* (src/libs/testing/src/virtual_sign_bus.rs) and the data types they use  *)
(* (src/libs/core/src/{message,page,sign_type}.rs).                        *)
(*                                                                         *)
(* A Sign call is a sequence of blocking exchanges with the bus; every     *)
(* exchange is one step of the model.  Spec drives the Sign against a bus  *)
(* that may answer anything (the SignBus trait promises nothing more);     *)
(* SpecVirtual drives it against a VirtualSignBus holding two VirtualSigns *)
(* which other users of the bus may also send messages to.                 *)
(***************************************************************************)
EXTENDS Integers, Sequences, FiniteSets, TLC

\* ---------------------------------------------------------------- bounds

\* Largest number of pages handed to one send_pages call.
MaxPages == 2
\* Largest number of QueryState polls explored in one switch_page call.
MaxPolls == 4
\* Largest number of messages other users put on the virtual bus.
MaxRaw == 2
\* Largest number of data bytes in the frames tried exhaustively.
MaxData == 2
\* Largest number of conversions applied in a row to one codec input.
MaxConversions == 3
\* Largest number of set_pixel calls made on one page.
MaxDraws == 2
\* Largest number of chunks a virtual sign on its own counts in one transfer.
MaxChunks == 3
\* Largest number of messages handed to a VirtualSignBus that carries no Sign.
MaxBus == 7
\* Largest number of lines in the bytes a port delivers.
MaxLines == 2
\* Largest number of calls made on one port.
MaxPortCalls == 3

\* ------------------------------------------------------- program constants

MAX_ATTEMPTS == 3
ChunkSize == 16
ConfigLength == 16
U8 == 256
U16 == 65536

Min(a, b) == IF a < b THEN a ELSE b

\* ------------------------------------------------------------ message layer

State ==
  {"Unconfigured", "ConfigInProgress", "ConfigReceived", "ConfigFailed",
   "PixelsInProgress", "PixelsReceived", "PixelsFailed", "PageLoaded",
   "PageLoadInProgress", "PageShown", "PageShowInProgress", "ReadyToReset",
   "ShowingPages"}

Operation ==
  {"ReceiveConfig", "ReceivePixels", "ShowLoadedPage", "LoadNextPage",
   "StartReset", "FinishReset"}

\* Option::None as a bus reply, and the Err(..) a bus may return instead.
None == [type |-> "None"]
BusErr == [type |-> "Err"]

SendData(offset, data) == [type |-> "SendData", offset |-> offset, data |-> data]
DataChunksSent(count) == [type |-> "DataChunksSent", count |-> count]
Hello(a) == [type |-> "Hello", addr |-> a]
QueryState(a) == [type |-> "QueryState", addr |-> a]
ReportState(a, s) == [type |-> "ReportState", addr |-> a, state |-> s]
RequestOperation(a, op) == [type |-> "RequestOperation", addr |-> a, op |-> op]
AckOperation(a, op) == [type |-> "AckOperation", addr |-> a, op |-> op]
PixelsComplete(a) == [type |-> "PixelsComplete", addr |-> a]
Goodbye(a) == [type |-> "Goodbye", addr |-> a]

\* Message::Unknown
Unknown(frame) == [type |-> "Unknown", frame |-> frame]

\* -------------------------------------------------------------- frame codec

\* Data::try_new accepts at most 0xFF bytes.
MaxDataLength == 255

\* FrameError::DataTooLong
DataTooLong(actual) == [error |-> "DataTooLong", max |-> MaxDataLength, actual |-> actual]

\* Data::try_new
Data_try_new(data) == IF Len(data) > MaxDataLength THEN DataTooLong(Len(data)) ELSE data

\* Frame::new
Frame_new(address, message_type, data) ==
  [address |-> address, message_type |-> message_type, data |-> data]

\* Frame::payload: length, address high byte, address low byte, message type, data.
payload(frame) ==
  <<Len(frame.data) % U8, (frame.address \div U8) % U8, frame.address % U8,
    frame.message_type>> \o frame.data

\* u8::wrapping_sub
wrapping_sub(a, b) == (a + U8 - b) % U8

\* A fold that adds where checksum subtracts.
RECURSIVE fold_adding(_, _, _, _)
fold_adding(bytes, lo, hi, acc) ==
  IF lo > hi THEN acc
  ELSE IF lo = hi THEN (acc + bytes[lo]) % U8
  ELSE LET first == fold_adding(bytes, lo, (lo + hi) \div 2, acc)
       IN IF first < U8 THEN fold_adding(bytes, (lo + hi) \div 2 + 1, hi, first)
          ELSE first

\* checksum: bytes.iter().fold(acc, |acc, &b| acc.wrapping_sub(b)) over the
\* bytes lo..hi in order: the accumulator after the first half of them (a u8)
\* is what the second half starts from.
RECURSIVE fold_wrapping_sub(_, _, _, _)
fold_wrapping_sub(bytes, lo, hi, acc) ==
  IF lo > hi THEN acc
  ELSE IF lo = hi THEN wrapping_sub(acc, bytes[lo])
  ELSE LET first == fold_wrapping_sub(bytes, lo, (lo + hi) \div 2, acc)
       IN IF first < U8 THEN fold_wrapping_sub(bytes, (lo + hi) \div 2 + 1, hi, first)
          ELSE first

\* checksum
checksum(bytes) == fold_wrapping_sub(bytes, 1, Len(bytes), 0)

\* The ASCII codes the codec deals in.
Colon == 58
CR == 13
LF == 10

\* HEX_DIGITS[n]: b"0123456789ABCDEF"
HEX_DIGITS(n) == IF n < 10 THEN 48 + n ELSE 55 + n

\* A to_bytes that writes the low nibble of every byte first.
Frame_to_bytes_low_first(frame) ==
  LET p == Append(payload(frame), checksum(payload(frame)))
  IN [i \in 1..(1 + 2 * Len(p)) |->
        IF i = 1 THEN Colon
        ELSE IF i % 2 = 0 THEN HEX_DIGITS(p[i \div 2] % 16)
        ELSE HEX_DIGITS(p[i \div 2] \div 16)]

\* Frame::to_bytes: the colon, then two digits per byte of payload and checksum.
Frame_to_bytes(frame) ==
  LET p == Append(payload(frame), checksum(payload(frame)))
  IN [i \in 1..(1 + 2 * Len(p)) |->
        IF i = 1 THEN Colon
        ELSE IF i % 2 = 0 THEN HEX_DIGITS(p[i \div 2] \div 16)
        ELSE HEX_DIGITS(p[i \div 2] % 16)]

\* Frame::to_bytes_with_newline
Frame_to_bytes_with_newline(frame) == Frame_to_bytes(frame) \o <<CR, LF>>

\* [[:xdigit:]]
xdigit(c) == c \in (48..57) \cup (65..70) \cup (97..102)

\* The value of one hex digit, as from_str_radix(_, 16) reads it.
digit(c) == IF c <= 57 THEN c - 48 ELSE IF c <= 70 THEN c - 55 ELSE c - 87

\* parse_hex: the digits from the k-th on, with the value read so far.
RECURSIVE parse_hex_from(_, _, _)
parse_hex_from(bytes, k, acc) ==
  IF k > Len(bytes) THEN acc ELSE parse_hex_from(bytes, k + 1, 16 * acc + digit(bytes[k]))

\* parse_hex
parse_hex(bytes) == parse_hex_from(bytes, 1, 0)

\* The input without the optional newline sequence at its end: (?:\r\n)?$
WithoutNewline(bytes) ==
  IF Len(bytes) >= 2 /\ bytes[Len(bytes) - 1] = CR /\ bytes[Len(bytes)] = LF
  THEN SubSeq(bytes, 1, Len(bytes) - 2)
  ELSE bytes

\* RE.captures(bytes) is Some: a colon, then 2 + 4 + 2 digits, pairs of digits
\* for the data, 2 digits, and nothing else but the optional newline sequence.
RE_matches(bytes) ==
  LET b == WithoutNewline(bytes)
  IN /\ Len(b) >= 11
     /\ b[1] = Colon
     /\ \A i \in 2..Len(b) : xdigit(b[i])
     /\ (Len(b) - 11) % 2 = 0

\* The capture groups of RE: the data group takes every pair but the last.
RE_captures(bytes) ==
  LET b == WithoutNewline(bytes)
  IN [data_len |-> SubSeq(b, 2, 3), address |-> SubSeq(b, 4, 7),
      message_type |-> SubSeq(b, 8, 9), data |-> SubSeq(b, 10, Len(b) - 2),
      checksum |-> SubSeq(b, Len(b) - 1, Len(b))]

\* FrameError::InvalidFrame, FrameDataMismatch and BadChecksum
InvalidFrame(data) == [error |-> "InvalidFrame", data |-> data]
FrameDataMismatch(data, expected, actual) ==
  [error |-> "FrameDataMismatch", data |-> data, expected |-> expected, actual |-> actual]
BadChecksum(data, expected, actual) ==
  [error |-> "BadChecksum", data |-> data, expected |-> expected, actual |-> actual]

\* A from_bytes that compares the checksums before the lengths.
Frame_from_bytes_checksum_first(bytes) ==
  IF ~RE_matches(bytes) THEN InvalidFrame(bytes)
  ELSE LET captures == RE_captures(bytes)
           data_len == parse_hex(captures.data_len)
           address == parse_hex(captures.address)
           message_type == parse_hex(captures.message_type)
           data_bytes == captures.data
           provided_checksum == parse_hex(captures.checksum)
           data == [i \in 1..(Len(data_bytes) \div 2) |->
                      parse_hex(SubSeq(data_bytes, 2 * i - 1, 2 * i))]
           frame == Frame_new(address, message_type, data)
           computed_checksum == checksum(payload(frame))
       IN IF computed_checksum # provided_checksum
          THEN BadChecksum(bytes, provided_checksum, computed_checksum)
          ELSE IF Len(data) # data_len
          THEN FrameDataMismatch(bytes, data_len, Len(data))
          ELSE frame

\* Frame::from_bytes: the frame, or the FrameError.
Frame_from_bytes(bytes) ==
  IF ~RE_matches(bytes) THEN InvalidFrame(bytes)
  ELSE LET captures == RE_captures(bytes)
           data_len == parse_hex(captures.data_len)
           address == parse_hex(captures.address)
           message_type == parse_hex(captures.message_type)
           data_bytes == captures.data
           provided_checksum == parse_hex(captures.checksum)
           data == [i \in 1..(Len(data_bytes) \div 2) |->
                      parse_hex(SubSeq(data_bytes, 2 * i - 1, 2 * i))]
       IN IF Len(data) # data_len
          THEN FrameDataMismatch(bytes, data_len, Len(data))
          ELSE IF Data_try_new(data) # data THEN Data_try_new(data)
          ELSE LET frame == Frame_new(address, message_type, data)
                   computed_checksum == checksum(payload(frame))
               IN IF computed_checksum # provided_checksum
                  THEN BadChecksum(bytes, provided_checksum, computed_checksum)
                  ELSE frame

\* ------------------------------------------------- frames and messages

\* impl From<Frame> for Message, the arms for one byte of data:
\* (message type, data[0]) to the message.
OneByteMessage(frame) ==
  LET address == frame.address
      message_type == frame.message_type
      byte == frame.data[1]
  IN
  CASE message_type = 2 /\ byte = 255 -> Hello(address)
    [] message_type = 2 /\ byte = 0 -> QueryState(address)
    [] message_type = 2 /\ byte = 85 -> Goodbye(address)
    [] message_type = 4 /\ byte = 15 -> ReportState(address, "Unconfigured")
    [] message_type = 4 /\ byte = 13 -> ReportState(address, "ConfigInProgress")
    [] message_type = 4 /\ byte = 7 -> ReportState(address, "ConfigReceived")
    [] message_type = 4 /\ byte = 12 -> ReportState(address, "ConfigFailed")
    [] message_type = 4 /\ byte = 3 -> ReportState(address, "PixelsInProgress")
    [] message_type = 4 /\ byte = 1 -> ReportState(address, "PixelsReceived")
    [] message_type = 4 /\ byte = 11 -> ReportState(address, "PixelsFailed")
    [] message_type = 4 /\ byte = 16 -> ReportState(address, "PageLoaded")
    [] message_type = 4 /\ byte = 19 -> ReportState(address, "PageLoadInProgress")
    [] message_type = 4 /\ byte = 18 -> ReportState(address, "PageShown")
    [] message_type = 4 /\ byte = 17 -> ReportState(address, "PageShowInProgress")
    [] message_type = 4 /\ byte = 8 -> ReportState(address, "ReadyToReset")
    [] message_type = 3 /\ byte = 161 -> RequestOperation(address, "ReceiveConfig")
    [] message_type = 3 /\ byte = 162 -> RequestOperation(address, "ReceivePixels")
    [] message_type = 3 /\ byte = 169 -> RequestOperation(address, "ShowLoadedPage")
    [] message_type = 3 /\ byte = 170 -> RequestOperation(address, "LoadNextPage")
    [] message_type = 3 /\ byte = 166 -> RequestOperation(address, "StartReset")
    [] message_type = 3 /\ byte = 167 -> RequestOperation(address, "FinishReset")
    [] message_type = 5 /\ byte = 149 -> AckOperation(address, "ReceiveConfig")
    [] message_type = 5 /\ byte = 145 -> AckOperation(address, "ReceivePixels")
    [] message_type = 5 /\ byte = 150 -> AckOperation(address, "ShowLoadedPage")
    [] message_type = 5 /\ byte = 151 -> AckOperation(address, "LoadNextPage")
    [] message_type = 5 /\ byte = 147 -> AckOperation(address, "StartReset")
    [] message_type = 5 /\ byte = 148 -> AckOperation(address, "FinishReset")
    [] message_type = 6 /\ byte = 0 -> PixelsComplete(address)
    [] OTHER -> Unknown(frame)

\* A conversion without the arm for DataChunksSent.
Message_from_no_chunks_arm(frame) ==
  IF Len(frame.data) = 0 THEN Unknown(frame)
  ELSE IF Len(frame.data) = 1 THEN OneByteMessage(frame)
  ELSE IF frame.message_type = 0 THEN SendData(frame.address, frame.data)
  ELSE Unknown(frame)

\* impl From<Frame> for Message
Message_from(frame) ==
  IF Len(frame.data) = 0
  THEN IF frame.message_type = 1 THEN DataChunksSent(frame.address) ELSE Unknown(frame)
  ELSE IF Len(frame.data) = 1
  THEN OneByteMessage(frame)
  ELSE IF frame.message_type = 0 THEN SendData(frame.address, frame.data)
  ELSE Unknown(frame)

\* impl From<Message> for Frame, the data byte of a ReportState.
StateByte(state) ==
  CASE state = "Unconfigured" -> 15
    [] state = "ConfigInProgress" -> 13
    [] state = "ConfigReceived" -> 7
    [] state = "ConfigFailed" -> 12
    [] state = "PixelsInProgress" -> 3
    [] state = "PixelsReceived" -> 1
    [] state = "PixelsFailed" -> 11
    [] state = "PageLoaded" -> 16
    [] state = "PageLoadInProgress" -> 19
    [] state = "PageShown" -> 18
    [] state = "PageShowInProgress" -> 17
    [] state = "ReadyToReset" -> 8

\* impl From<Message> for Frame, the data byte of a RequestOperation.
RequestByte(op) ==
  CASE op = "ReceiveConfig" -> 161
    [] op = "ReceivePixels" -> 162
    [] op = "ShowLoadedPage" -> 169
    [] op = "LoadNextPage" -> 170
    [] op = "StartReset" -> 166
    [] op = "FinishReset" -> 167

\* impl From<Message> for Frame, the data byte of an AckOperation.
AckByte(op) ==
  CASE op = "ReceiveConfig" -> 149
    [] op = "ReceivePixels" -> 145
    [] op = "ShowLoadedPage" -> 150
    [] op = "LoadNextPage" -> 151
    [] op = "StartReset" -> 147
    [] op = "FinishReset" -> 148

\* A conversion that gives Goodbye the data byte of Hello.
Frame_from_goodbye_as_hello(message) ==
  CASE message.type = "SendData" -> Frame_new(message.offset, 0, message.data)
    [] message.type = "DataChunksSent" -> Frame_new(message.count, 1, <<>>)
    [] message.type = "Hello" -> Frame_new(message.addr, 2, <<255>>)
    [] message.type = "Goodbye" -> Frame_new(message.addr, 2, <<255>>)
    [] message.type = "QueryState" -> Frame_new(message.addr, 2, <<0>>)
    [] message.type = "ReportState" ->
         Frame_new(message.addr, 4, <<StateByte(message.state)>>)
    [] message.type = "RequestOperation" ->
         Frame_new(message.addr, 3, <<RequestByte(message.op)>>)
    [] message.type = "AckOperation" ->
         Frame_new(message.addr, 5, <<AckByte(message.op)>>)
    [] message.type = "PixelsComplete" -> Frame_new(message.addr, 6, <<0>>)
    [] message.type = "Unknown" -> message.frame

\* impl From<Message> for Frame
Frame_from(message) ==
  CASE message.type = "SendData" -> Frame_new(message.offset, 0, message.data)
    [] message.type = "DataChunksSent" -> Frame_new(message.count, 1, <<>>)
    [] message.type = "Hello" -> Frame_new(message.addr, 2, <<255>>)
    [] message.type = "Goodbye" -> Frame_new(message.addr, 2, <<85>>)
    [] message.type = "QueryState" -> Frame_new(message.addr, 2, <<0>>)
    [] message.type = "ReportState" ->
         Frame_new(message.addr, 4, <<StateByte(message.state)>>)
    [] message.type = "RequestOperation" ->
         Frame_new(message.addr, 3, <<RequestByte(message.op)>>)
    [] message.type = "AckOperation" ->
         Frame_new(message.addr, 5, <<AckByte(message.op)>>)
    [] message.type = "PixelsComplete" -> Frame_new(message.addr, 6, <<0>>)
    [] message.type = "Unknown" -> message.frame

\* --------------------------------------------------------------- sign types

SignType ==
  {"Max3000Front112x16", "Max3000Front98x16", "Max3000Side90x7",
   "Max3000Rear30x10", "Max3000Rear23x10", "Max3000Dash30x7",
   "HorizonFront160x16", "HorizonFront140x16", "HorizonSide96x8",
   "HorizonRear48x16", "HorizonDash40x12"}

\* SignType::to_bytes
to_bytes(t) ==
  CASE t = "Max3000Front112x16" -> <<4, 71, 0, 15, 16, 28, 28, 28, 28, 16, 0, 0, 0, 0, 0, 0>>
    [] t = "Max3000Front98x16" -> <<4, 77, 0, 13, 16, 14, 28, 28, 28, 16, 0, 0, 0, 0, 0, 0>>
    [] t = "Max3000Side90x7" -> <<4, 32, 0, 6, 7, 30, 30, 30, 0, 8, 0, 0, 0, 0, 0, 0>>
    [] t = "Max3000Rear23x10" -> <<4, 97, 0, 4, 10, 23, 0, 0, 0, 16, 0, 0, 0, 0, 0, 0>>
    [] t = "Max3000Rear30x10" -> <<4, 98, 0, 4, 10, 30, 0, 0, 0, 16, 0, 0, 0, 0, 0, 0>>
    [] t = "Max3000Dash30x7" -> <<4, 38, 0, 3, 7, 30, 0, 0, 0, 8, 0, 0, 0, 0, 0, 0>>
    [] t = "HorizonFront160x16" -> <<8, 177, 0, 21, 12, 16, 0, 160, 4, 0, 40, 0, 0, 0, 0, 0>>
    [] t = "HorizonFront140x16" -> <<8, 178, 0, 18, 4, 16, 0, 140, 1, 3, 20, 40, 0, 0, 0, 0>>
    [] t = "HorizonSide96x8" -> <<8, 180, 0, 7, 12, 8, 0, 96, 2, 0, 48, 0, 0, 0, 0, 0>>
    [] t = "HorizonRear48x16" -> <<8, 181, 0, 7, 12, 16, 0, 48, 1, 0, 48, 0, 0, 0, 0, 0>>
    [] t = "HorizonDash40x12" -> <<8, 185, 0, 6, 140, 12, 0, 40, 1, 0, 40, 0, 4, 0, 0, 0>>

\* SignType::dimensions, as <<width, height>>
dimensions(t) ==
  CASE t = "Max3000Front112x16" -> <<112, 16>>
    [] t = "Max3000Front98x16" -> <<98, 16>>
    [] t = "Max3000Side90x7" -> <<90, 7>>
    [] t = "Max3000Rear23x10" -> <<23, 10>>
    [] t = "Max3000Rear30x10" -> <<30, 10>>
    [] t = "Max3000Dash30x7" -> <<30, 7>>
    [] t = "HorizonFront160x16" -> <<160, 16>>
    [] t = "HorizonFront140x16" -> <<140, 16>>
    [] t = "HorizonSide96x8" -> <<96, 8>>
    [] t = "HorizonRear48x16" -> <<48, 16>>
    [] t = "HorizonDash40x12" -> <<40, 12>>

\* A from_bytes that knows a type by all 16 bytes of its block.
SignType_from_whole_block(bytes) ==
  IF Len(bytes) # ConfigLength THEN "WrongConfigLength"
  ELSE IF \E t \in SignType : to_bytes(t) = bytes
  THEN CHOOSE t \in SignType : to_bytes(t) = bytes
  ELSE "UnknownConfig"

\* SignType::from_bytes; the two error variants are returned by name.
SignType_from_bytes(bytes) ==
  IF Len(bytes) # ConfigLength THEN "WrongConfigLength"
  ELSE LET b0 == bytes[1]
           b1 == bytes[2]
       IN CASE b0 = 4 /\ b1 = 71 -> "Max3000Front112x16"
            [] b0 = 4 /\ b1 = 77 -> "Max3000Front98x16"
            [] b0 = 4 /\ b1 = 32 -> "Max3000Side90x7"
            [] b0 = 4 /\ b1 = 98 -> "Max3000Rear30x10"
            [] b0 = 4 /\ b1 = 97 -> "Max3000Rear23x10"
            [] b0 = 4 /\ b1 = 38 -> "Max3000Dash30x7"
            [] b0 = 8 /\ b1 = 177 -> "HorizonFront160x16"
            [] b0 = 8 /\ b1 = 178 -> "HorizonFront140x16"
            [] b0 = 8 /\ b1 = 180 -> "HorizonSide96x8"
            [] b0 = 8 /\ b1 = 181 -> "HorizonRear48x16"
            [] b0 = 8 /\ b1 = 185 -> "HorizonDash40x12"
            [] OTHER -> "UnknownConfig"

\* -------------------------------------------------------------------- pages

bytes_per_column(height) == (height + 7) \div 8
data_bytes(width, height) == 4 + width * bytes_per_column(height)
total_bytes(width, height) == ((data_bytes(width, height) + 15) \div 16) * 16

\* Page::new
Page_new(id, width, height) ==
  [width |-> width, height |-> height,
   bytes |-> [i \in 1..total_bytes(width, height) |->
                IF i = 1 THEN id
                ELSE IF i = 2 THEN 16
                ELSE IF i <= data_bytes(width, height) THEN 0
                ELSE 255]]

\* Page::byte_bit_indices (zero-based byte index, bit index); callers stay in range.
byte_bit_indices(page, x, y) ==
  <<4 + x * bytes_per_column(page.height) + y \div 8, y % 8>>

Pow2(n) == IF n = 0 THEN 1 ELSE IF n = 1 THEN 2 ELSE IF n = 2 THEN 4
           ELSE IF n = 3 THEN 8 ELSE IF n = 4 THEN 16 ELSE IF n = 5 THEN 32
           ELSE IF n = 6 THEN 64 ELSE 128

\* Page::get_pixel
get_pixel(page, x, y) ==
  LET bb == byte_bit_indices(page, x, y)
  IN (page.bytes[bb[1] + 1] \div Pow2(bb[2])) % 2 = 1

\* A set_pixel that flips the bit whenever the value is true.
set_pixel_toggles(page, x, y, value) ==
  LET bb == byte_bit_indices(page, x, y)
      mask == Pow2(bb[2])
      byte == page.bytes[bb[1] + 1]
      isSet == (byte \div mask) % 2 = 1
      newByte == IF value THEN (IF isSet THEN byte - mask ELSE byte + mask)
                 ELSE (IF isSet THEN byte - mask ELSE byte)
  IN [page EXCEPT !.bytes[bb[1] + 1] = newByte]

\* Page::set_pixel
set_pixel(page, x, y, value) ==
  LET bb == byte_bit_indices(page, x, y)
      mask == Pow2(bb[2])
      byte == page.bytes[bb[1] + 1]
      isSet == (byte \div mask) % 2 = 1
      newByte == IF value THEN (IF isSet THEN byte ELSE byte + mask)
                 ELSE (IF isSet THEN byte - mask ELSE byte)
  IN [page EXCEPT !.bytes[bb[1] + 1] = newByte]

\* PageError::WrongPageLength
WrongPageLength == [error |-> "WrongPageLength"]

\* Page::from_bytes
Page_from_bytes(width, height, bytes) ==
  IF Len(bytes) # total_bytes(width, height) THEN WrongPageLength
  ELSE [width |-> width, height |-> height, bytes |-> bytes]

\* ------------------------------------------------------------- virtual sign

\* VirtualSign::new
VirtualSign_new(address) ==
  [address |-> address, state |-> "Unconfigured", pages |-> <<>>,
   pending_data |-> <<>>, data_chunks |-> 0, width |-> 0, height |-> 0,
   sign_type |-> "None"]

\* What one call of a VirtualSign method can end in: the sign afterwards, the
\* reply, and whether the call panicked instead of returning.
Returns(sign, reply) == [sign |-> sign, reply |-> reply, panic |-> FALSE]
Panics(sign) == [sign |-> sign, reply |-> None, panic |-> TRUE]

\* `x += 1` on a u16: past 65535 a build with overflow checks panics and a
\* build without them wraps, so both outcomes are possible.
IncU16(x) ==
  IF x + 1 < U16 THEN {[value |-> x + 1, panic |-> FALSE]}
  ELSE {[value |-> 0, panic |-> FALSE], [value |-> x, panic |-> TRUE]}

\* `iter().sum()` into a u8, with the same two outcomes on overflow.
SumU8(a, b, c, d) ==
  IF a + b + c + d < U8 THEN {[value |-> a + b + c + d, panic |-> FALSE]}
  ELSE {[value |-> (a + b + c + d) % U8, panic |-> FALSE],
        [value |-> 0, panic |-> TRUE]}

\* A query_state that reports the state it moves to.
query_state_reports_next(s) ==
  LET next == IF s.state = "PageLoadInProgress" THEN "PageLoaded"
              ELSE IF s.state = "PageShowInProgress" THEN "PageShown"
              ELSE s.state
  IN {Returns([s EXCEPT !.state = next], ReportState(s.address, next))}

\* A query_state that reports an in-progress state without leaving it.
query_state_stays(s) == {Returns(s, ReportState(s.address, s.state))}

\* VirtualSign::query_state
query_state(s) ==
  LET next == IF s.state = "PageLoadInProgress" THEN "PageLoaded"
              ELSE IF s.state = "PageShowInProgress" THEN "PageShown"
              ELSE s.state
  IN {Returns([s EXCEPT !.state = next], ReportState(s.address, s.state))}

\* A receive_config that also accepts a new configuration over loaded pages.
receive_config_over_pages(s) ==
  IF s.state \in {"Unconfigured", "ConfigFailed", "PageLoaded"}
  THEN {Returns([s EXCEPT !.state = "ConfigInProgress"],
                AckOperation(s.address, "ReceiveConfig"))}
  ELSE {Returns(s, None)}

\* VirtualSign::receive_config
receive_config(s) ==
  IF s.state \in {"Unconfigured", "ConfigFailed"}
  THEN {Returns([s EXCEPT !.state = "ConfigInProgress"],
                AckOperation(s.address, "ReceiveConfig"))}
  ELSE {Returns(s, None)}

\* VirtualSign::flush_pixels, as one outcome: .expect() panics on a page of the
\* wrong length.
flush_pixels(s) ==
  IF s.pending_data # <<>>
  THEN LET taken == [s EXCEPT !.pending_data = <<>>]
           page == Page_from_bytes(s.width, s.height, s.pending_data)
       IN IF s.width > 0 /\ s.height > 0
          THEN IF page = WrongPageLength THEN Panics(taken)
               ELSE Returns([taken EXCEPT !.pages = Append(@, page)], None)
          ELSE Returns(taken, None)
  ELSE Returns(s, None)

\* The configuration branch of VirtualSign::send_data, once the first byte
\* selected the layout: sign_type, width, height, then data_chunks += 1.
StoreConfig(s, data, width, height) ==
  LET t == SignType_from_bytes(data)
      known == [s EXCEPT !.sign_type = IF t \in SignType THEN t ELSE "None",
                         !.width = width, !.height = height]
  IN {IF n.panic THEN Panics(known)
      ELSE Returns([known EXCEPT !.data_chunks = n.value], None)
      : n \in IncU16(s.data_chunks)}

\* A send_data that counts the chunk of a block of neither family.
send_data_counts_every_block(s, offset, data) ==
  IF s.state = "ConfigInProgress" /\ offset = 0 /\ Len(data) = 16
  THEN IF data[1] = 4
       THEN UNION {IF w.panic THEN {Panics(s)}
                   ELSE StoreConfig(s, data, w.value, data[5])
                   : w \in SumU8(data[6], data[7], data[8], data[9])}
       ELSE IF data[1] = 8
       THEN StoreConfig(s, data, data[8], data[6])
       ELSE {Returns([s EXCEPT !.data_chunks = @ + 1], None)}
  ELSE IF s.state = "PixelsInProgress"
  THEN LET f == IF offset = 0 THEN flush_pixels(s) ELSE Returns(s, None)
           more == [f.sign EXCEPT !.pending_data = @ \o data]
       IN IF f.panic THEN {f}
          ELSE {IF n.panic THEN Panics(more)
                ELSE Returns([more EXCEPT !.data_chunks = n.value], None)
                : n \in IncU16(s.data_chunks)}
  ELSE {Returns(s, None)}

\* VirtualSign::send_data
VirtualSign_send_data(s, offset, data) ==
  IF s.state = "ConfigInProgress" /\ offset = 0 /\ Len(data) = 16
  THEN IF data[1] = 4
       THEN UNION {IF w.panic THEN {Panics(s)}
                   ELSE StoreConfig(s, data, w.value, data[5])
                   : w \in SumU8(data[6], data[7], data[8], data[9])}
       ELSE IF data[1] = 8
       THEN StoreConfig(s, data, data[8], data[6])
       ELSE {Returns(s, None)}
  ELSE IF s.state = "PixelsInProgress"
  THEN LET f == IF offset = 0 THEN flush_pixels(s) ELSE Returns(s, None)
           more == [f.sign EXCEPT !.pending_data = @ \o data]
       IN IF f.panic THEN {f}
          ELSE {IF n.panic THEN Panics(more)
                ELSE Returns([more EXCEPT !.data_chunks = n.value], None)
                : n \in IncU16(s.data_chunks)}
  ELSE {Returns(s, None)}

\* A data_chunks_sent that leaves the chunk counter as it is.
data_chunks_sent_keeps_count(s, chunks) ==
  LET next == IF s.data_chunks = chunks
              THEN (IF s.state = "ConfigInProgress" THEN "ConfigReceived"
                    ELSE IF s.state = "PixelsInProgress" THEN "PixelsReceived"
                    ELSE s.state)
              ELSE (IF s.state = "ConfigInProgress" THEN "ConfigFailed"
                    ELSE IF s.state = "PixelsInProgress" THEN "PixelsFailed"
                    ELSE s.state)
      f == flush_pixels([s EXCEPT !.state = next])
  IN {f}

\* VirtualSign::data_chunks_sent
data_chunks_sent(s, chunks) ==
  LET next == IF s.data_chunks = chunks
              THEN (IF s.state = "ConfigInProgress" THEN "ConfigReceived"
                    ELSE IF s.state = "PixelsInProgress" THEN "PixelsReceived"
                    ELSE s.state)
              ELSE (IF s.state = "ConfigInProgress" THEN "ConfigFailed"
                    ELSE IF s.state = "PixelsInProgress" THEN "PixelsFailed"
                    ELSE s.state)
      f == flush_pixels([s EXCEPT !.state = next])
  IN IF f.panic THEN {f}
     ELSE {Returns([f.sign EXCEPT !.data_chunks = 0], None)}

\* A receive_pixels that keeps the pages of the transfer before.
receive_pixels_keeps_pages(s) ==
  IF s.state \in {"ConfigReceived", "PixelsFailed", "PageLoaded",
                  "PageLoadInProgress", "PageShown", "PageShowInProgress"}
  THEN {Returns([s EXCEPT !.state = "PixelsInProgress"],
                AckOperation(s.address, "ReceivePixels"))}
  ELSE {Returns(s, None)}

\* VirtualSign::receive_pixels
receive_pixels(s) ==
  IF s.state \in {"ConfigReceived", "PixelsFailed", "PageLoaded",
                  "PageLoadInProgress", "PageShown", "PageShowInProgress"}
  THEN {Returns([s EXCEPT !.state = "PixelsInProgress", !.pages = <<>>],
                AckOperation(s.address, "ReceivePixels"))}
  ELSE {Returns(s, None)}

\* VirtualSign::pixels_complete
pixels_complete(s) ==
  IF s.state = "PixelsReceived"
  THEN {Returns([s EXCEPT !.state = "PageLoaded"], None)}
  ELSE {Returns(s, None)}

\* VirtualSign::show_loaded_page
VirtualSign_show_loaded_page(s) ==
  IF s.state = "PageLoaded"
  THEN {Returns([s EXCEPT !.state = "PageShowInProgress"],
                AckOperation(s.address, "ShowLoadedPage"))}
  ELSE {Returns(s, None)}

\* VirtualSign::load_next_page
VirtualSign_load_next_page(s) ==
  IF s.state = "PageShown"
  THEN {Returns([s EXCEPT !.state = "PageLoadInProgress"],
                AckOperation(s.address, "LoadNextPage"))}
  ELSE {Returns(s, None)}

\* A reset that leaves the dimensions and the sign type.
reset_keeps_configuration(s) ==
  [s EXCEPT !.state = "Unconfigured", !.pages = <<>>, !.pending_data = <<>>,
            !.data_chunks = 0]

\* VirtualSign::reset
reset(s) ==
  [s EXCEPT !.state = "Unconfigured", !.pages = <<>>, !.pending_data = <<>>,
            !.data_chunks = 0, !.width = 0, !.height = 0, !.sign_type = "None"]

\* A start_reset that drops the buffered pixel data.
start_reset_drops_pending(s) ==
  {Returns([s EXCEPT !.state = "ReadyToReset", !.pending_data = <<>>],
           AckOperation(s.address, "StartReset"))}

\* VirtualSign::start_reset
start_reset(s) ==
  {Returns([s EXCEPT !.state = "ReadyToReset"],
           AckOperation(s.address, "StartReset"))}

\* A finish_reset that resets a sign in any state.
finish_reset_anytime(s) ==
  IF s.state = "ReadyToReset"
  THEN {Returns(reset(s), AckOperation(s.address, "FinishReset"))}
  ELSE {Returns(reset(s), None)}

\* VirtualSign::finish_reset
finish_reset(s) ==
  IF s.state = "ReadyToReset"
  THEN {Returns(reset(s), AckOperation(s.address, "FinishReset"))}
  ELSE {Returns(s, None)}

\* A goodbye that forgets to drop the pages.
goodbye_keeps_pages(s) == {Returns([reset(s) EXCEPT !.pages = s.pages], None)}

\* VirtualSign::goodbye
goodbye(s) == {Returns(reset(s), None)}

\* A process_message whose Goodbye arm forgets the guard on the address.
process_message_any_goodbye(s, m) ==
  CASE m.type \in {"Hello", "QueryState"} /\ m.addr = s.address -> query_state(s)
    [] m.type = "RequestOperation" /\ m.op = "ReceiveConfig" /\ m.addr = s.address ->
         receive_config(s)
    [] m.type = "SendData" -> VirtualSign_send_data(s, m.offset, m.data)
    [] m.type = "DataChunksSent" -> data_chunks_sent(s, m.count)
    [] m.type = "RequestOperation" /\ m.op = "ReceivePixels" /\ m.addr = s.address ->
         receive_pixels(s)
    [] m.type = "PixelsComplete" /\ m.addr = s.address -> pixels_complete(s)
    [] m.type = "RequestOperation" /\ m.op = "ShowLoadedPage" /\ m.addr = s.address ->
         VirtualSign_show_loaded_page(s)
    [] m.type = "RequestOperation" /\ m.op = "LoadNextPage" /\ m.addr = s.address ->
         VirtualSign_load_next_page(s)
    [] m.type = "RequestOperation" /\ m.op = "StartReset" /\ m.addr = s.address ->
         start_reset(s)
    [] m.type = "RequestOperation" /\ m.op = "FinishReset" /\ m.addr = s.address ->
         finish_reset(s)
    [] m.type = "Goodbye" -> goodbye(s)
    [] OTHER -> {Returns(s, None)}

\* VirtualSign::process_message: the set of outcomes for one message.
VirtualSign_process_message(s, m) ==
  CASE m.type \in {"Hello", "QueryState"} /\ m.addr = s.address -> query_state(s)
    [] m.type = "RequestOperation" /\ m.op = "ReceiveConfig" /\ m.addr = s.address ->
         receive_config(s)
    [] m.type = "SendData" -> VirtualSign_send_data(s, m.offset, m.data)
    [] m.type = "DataChunksSent" -> data_chunks_sent(s, m.count)
    [] m.type = "RequestOperation" /\ m.op = "ReceivePixels" /\ m.addr = s.address ->
         receive_pixels(s)
    [] m.type = "PixelsComplete" /\ m.addr = s.address -> pixels_complete(s)
    [] m.type = "RequestOperation" /\ m.op = "ShowLoadedPage" /\ m.addr = s.address ->
         VirtualSign_show_loaded_page(s)
    [] m.type = "RequestOperation" /\ m.op = "LoadNextPage" /\ m.addr = s.address ->
         VirtualSign_load_next_page(s)
    [] m.type = "RequestOperation" /\ m.op = "StartReset" /\ m.addr = s.address ->
         start_reset(s)
    [] m.type = "RequestOperation" /\ m.op = "FinishReset" /\ m.addr = s.address ->
         finish_reset(s)
    [] m.type = "Goodbye" /\ m.addr = s.address -> goodbye(s)
    [] OTHER -> {Returns(s, None)}

\* --------------------------------------------------------- virtual sign bus

\* What one exchange with a bus can end in: the bus's signs afterwards, the
\* reply (None, a message, or BusErr), and whether the call panicked.
BusReturns(vs, reply) == [signs |-> vs, reply |-> reply, panic |-> FALSE]
BusPanics(vs) == [signs |-> vs, reply |-> None, panic |-> TRUE]

\* The loop of VirtualSignBus::process_message from the k-th sign on.
RECURSIVE OfferFrom(_, _, _)
OfferFrom(vs, m, k) ==
  IF k > Len(vs) THEN {BusReturns(vs, None)}
  ELSE UNION {LET after == [vs EXCEPT ![k] = o.sign]
              IN IF o.panic THEN {BusPanics(after)}
                 ELSE IF o.reply # None THEN {BusReturns(after, o.reply)}
                 ELSE OfferFrom(after, m, k + 1)
              : o \in VirtualSign_process_message(vs[k], m)}

\* A loop that offers the message to every sign and keeps the first reply.
RECURSIVE OfferToAll(_, _, _, _)
OfferToAll(vs, m, k, reply) ==
  IF k > Len(vs) THEN {BusReturns(vs, reply)}
  ELSE UNION {LET after == [vs EXCEPT ![k] = o.sign]
              IN IF o.panic THEN {BusPanics(after)}
                 ELSE OfferToAll(after, m, k + 1,
                                 IF reply = None THEN o.reply ELSE reply)
              : o \in VirtualSign_process_message(vs[k], m)}

\* A process_message that does not return at the first reply.
process_message_offers_to_all(vs, m) == OfferToAll(vs, m, 1, None)

\* VirtualSignBus::process_message
VirtualSignBus_process_message(vs, m) == OfferFrom(vs, m, 1)

\* -------------------------------------------------------------------- state

VARIABLES
  bus,          \* which SignBus the Signs share: "scripted" or "virtual"
  vsigns,       \* VirtualSignBus::signs (empty on the scripted bus)
  signs,        \* the Sign handles: [address, sign_type]
  pc,           \* where the running Sign call stands; "idle" between calls
  self,         \* index in signs of the handle whose call runs or ran last
  call,         \* that call: [name, pages]
  attempts,     \* send_data: attempts
  item,         \* send_data: index of the slice being chunked (0: none left)
  idx,          \* send_data: i, the index of the next chunk in that slice
  chunks_sent,  \* send_data: chunks_sent
  polls,        \* switch_page: QueryState polls made so far in this call
  log,          \* the exchanges of this call: [msg, reply] in order
  result,       \* what the call returned; "running" until then
  pre,          \* vsigns when the call started
  rawLeft,      \* messages other users of the bus may still send
  chain,        \* a codec input and what the conversions applied to it gave
  drawing,      \* a Page::new and what each set_pixel on it gave
  port          \* a serial port: the bytes it delivers, how far they were read,
                \* and the reads and writes made on it

vars == <<bus, vsigns, signs, pc, self, call, attempts, item, idx,
          chunks_sent, polls, log, result, pre, rawLeft, chain, drawing,
          port>>

\* No serial port is in use.
NoPort == [data |-> <<>>, offset |-> 0, ops |-> <<>>]

\* The two addresses and the two Sign handles of sign_virtual_sign_interaction
\* (with the smallest Horizon type, to keep the pages short).
Addresses == {3, 6}

Handles ==
  <<[address |-> 3, sign_type |-> "Max3000Dash30x7"],
    [address |-> 6, sign_type |-> "HorizonDash40x12"]>>

Address == signs[self].address

\* Sign::create_page
create_page(k, id) ==
  Page_new(id, dimensions(signs[k].sign_type)[1], dimensions(signs[k].sign_type)[2])

\* The i-th page a caller builds for the k-th Sign: create_page(PageId(i)),
\* the odd ones with one pixel set.
PageOf(k, i) ==
  IF i % 2 = 1 THEN set_pixel(create_page(k, i), 1, 1, TRUE) ELSE create_page(k, i)

\* The page lists handed to send_pages: pages n, n - 1, ..., 1 for each n.
PageInputs(k) == {[i \in 1..n |-> PageOf(k, n + 1 - i)] : n \in 0..MaxPages}

\* Anything a SignBus may answer: nothing, an error, or a message.
ScriptReplies ==
  {None, BusErr}
    \cup {ReportState(a, s) : a \in Addresses, s \in State}
    \cup {AckOperation(a, op) : a \in Addresses, op \in Operation}

\* bus.process_message(m) as the Sign sees it (Sign::send_message).
Exchange(m) ==
  IF bus = "virtual" THEN VirtualSignBus_process_message(vsigns, m)
  ELSE {BusReturns(vsigns, r) : r \in ScriptReplies}

\* --------------------------------------------------------- Sign: parameters

\* The slices configure and send_pages hand to send_data.
Data ==
  IF call.name = "configure" THEN <<to_bytes(signs[self].sign_type)>>
  ELSE [i \in 1..Len(call.pages) |-> call.pages[i].bytes]

\* The operation, success and failure arguments of send_data.
SdOperation == IF call.name = "configure" THEN "ReceiveConfig" ELSE "ReceivePixels"
SdSuccess == IF call.name = "configure" THEN "ConfigReceived" ELSE "PixelsReceived"
SdFailure == IF call.name = "configure" THEN "ConfigFailed" ELSE "PixelsFailed"

\* The target, trigger and operation arguments of switch_page.
SwTarget == IF call.name = "show_loaded_page" THEN "PageShown" ELSE "PageLoaded"
SwTrigger == IF call.name = "show_loaded_page" THEN "PageLoaded" ELSE "PageShown"
SwOperation == IF call.name = "show_loaded_page" THEN "ShowLoadedPage" ELSE "LoadNextPage"

\* item.chunks(16): how many chunks, and the i-th of them (i from 0).
NumChunks(slice) == (Len(slice) + ChunkSize - 1) \div ChunkSize
Chunk(slice, i) ==
  SubSeq(slice, ChunkSize * i + 1, Min(ChunkSize * i + ChunkSize, Len(slice)))

\* The first slice from the k-th on that has a chunk to send; 0 if none has.
FirstFrom(data, k) ==
  IF \E j \in k..Len(data) : NumChunks(data[j]) > 0
  THEN CHOOSE j \in k..Len(data) :
         NumChunks(data[j]) > 0 /\ \A j2 \in k..(j - 1) : NumChunks(data[j2]) = 0
  ELSE 0

\* A chunk message whose offset is the chunk's index, not its byte offset.
ChunkMessageIndexOffset(slice, i) == SendData(i % U16, Chunk(slice, i))

\* The SendData message for chunk i of a slice: Offset((i * 16) as u16).
ChunkMessage(slice, i) == SendData((i * ChunkSize) % U16, Chunk(slice, i))

\* ------------------------------------------------------------ Sign: helpers

\* One exchange: the bus's signs move and the exchange is recorded.
Send(m, o) ==
  /\ vsigns' = o.signs
  /\ log' = Append(log, [msg |-> m, reply |-> o.reply])

\* The call returns r.
Return(r) == pc' = "idle" /\ result' = r
Continue(next) == pc' = next /\ result' = result

\* A send_message that hands a bus error on as if it were a wrong response.
FailureHidesBusError(o) == IF o.panic THEN "Panic" ELSE "UnexpectedResponse"

\* How an exchange fails the call: a panic below it, the `?` on a bus error,
\* or verify_response.
Failure(o) ==
  IF o.panic THEN "Panic" ELSE IF o.reply = BusErr THEN "Bus" ELSE "UnexpectedResponse"

\* A verify_response that accepts every response.
verify_response_lenient(expected, response) == TRUE

\* verify_response
verify_response(expected, response) == response = expected

\* send_message_expect_response went through.
Verified(o, expected) == ~o.panic /\ verify_response(expected, o.reply)

Begin(k, c) ==
  /\ pc = "idle"
  /\ result # "Panic"
  /\ self' = k
  /\ call' = c
  /\ log' = <<>>
  /\ result' = "running"
  /\ pre' = vsigns
  /\ attempts' = 1
  /\ item' = 0
  /\ idx' = 0
  /\ chunks_sent' = 0
  /\ polls' = 0
  /\ UNCHANGED <<bus, vsigns, signs, rawLeft, chain, drawing, port>>

Locals == <<attempts, item, idx, chunks_sent, polls>>
Frame == <<bus, signs, self, call, pre, rawLeft, chain, drawing, port>>

\* ---------------------------------------------------------- Sign: configure

\* Sign::configure is called on the k-th handle.
Configure(k) ==
  /\ Begin(k, [name |-> "configure", pages |-> <<>>])
  /\ pc' = "ensure_unconfigured"

\* A match without the ReadyToReset arm.
AfterHelloNoReadyArm(response) ==
  IF response = ReportState(Address, "Unconfigured") THEN "request_operation"
  ELSE "start_reset"

\* ensure_unconfigured: the arm the match on the first Hello's reply takes.
AfterHello(response) ==
  IF response = ReportState(Address, "Unconfigured") THEN "request_operation"
  ELSE IF response = ReportState(Address, "ReadyToReset") THEN "finish_reset"
  ELSE "start_reset"

\* ensure_unconfigured: Hello, and the match on its reply.
EnsureHello ==
  /\ pc = "ensure_unconfigured"
  /\ \E o \in Exchange(Hello(Address)) :
       /\ Send(Hello(Address), o)
       /\ IF o.panic \/ o.reply = BusErr THEN Return(Failure(o))
          ELSE Continue(AfterHello(o.reply))
  /\ UNCHANGED <<Locals, Frame>>

\* ensure_unconfigured: RequestOperation(StartReset), expecting its ack.
EnsureStartReset ==
  /\ pc = "start_reset"
  /\ LET m == RequestOperation(Address, "StartReset")
     IN \E o \in Exchange(m) :
          /\ Send(m, o)
          /\ IF Verified(o, AckOperation(Address, "StartReset"))
             THEN Continue("hello_ready") ELSE Return(Failure(o))
  /\ UNCHANGED <<Locals, Frame>>

\* ensure_unconfigured: Hello, expecting ReadyToReset.
EnsureHelloReady ==
  /\ pc = "hello_ready"
  /\ \E o \in Exchange(Hello(Address)) :
       /\ Send(Hello(Address), o)
       /\ IF Verified(o, ReportState(Address, "ReadyToReset"))
          THEN Continue("finish_reset") ELSE Return(Failure(o))
  /\ UNCHANGED <<Locals, Frame>>

\* ensure_unconfigured: RequestOperation(FinishReset), expecting its ack.
EnsureFinishReset ==
  /\ pc = "finish_reset"
  /\ LET m == RequestOperation(Address, "FinishReset")
     IN \E o \in Exchange(m) :
          /\ Send(m, o)
          /\ IF Verified(o, AckOperation(Address, "FinishReset"))
             THEN Continue("hello_unconfigured") ELSE Return(Failure(o))
  /\ UNCHANGED <<Locals, Frame>>

\* ensure_unconfigured: the last Hello, expecting Unconfigured.
EnsureHelloUnconfigured ==
  /\ pc = "hello_unconfigured"
  /\ \E o \in Exchange(Hello(Address)) :
       /\ Send(Hello(Address), o)
       /\ IF Verified(o, ReportState(Address, "Unconfigured"))
          THEN Continue("request_operation") ELSE Return(Failure(o))
  /\ UNCHANGED <<Locals, Frame>>

\* ---------------------------------------------------------- Sign: send_data

\* Where the chunk loops stand after chunk i of slice k went out.
NextItem(data, k, i) == IF i + 1 < NumChunks(data[k]) THEN k ELSE FirstFrom(data, k + 1)
NextIdx(data, k, i) == IF i + 1 < NumChunks(data[k]) THEN i + 1 ELSE 0

\* send_data: RequestOperation(operation), expecting its ack; then the chunk
\* loops start with chunks_sent = 0.
SdRequestOperation ==
  /\ pc = "request_operation"
  /\ LET m == RequestOperation(Address, SdOperation)
     IN \E o \in Exchange(m) :
          /\ Send(m, o)
          /\ IF Verified(o, AckOperation(Address, SdOperation))
             THEN /\ Continue(IF FirstFrom(Data, 1) = 0 THEN "data_chunks_sent"
                              ELSE "send_chunk")
                  /\ item' = FirstFrom(Data, 1)
                  /\ idx' = 0
                  /\ chunks_sent' = 0
             ELSE /\ Return(Failure(o))
                  /\ UNCHANGED <<item, idx, chunks_sent>>
  /\ UNCHANGED <<attempts, polls, Frame>>

\* send_data: one SendData, expecting no reply; then chunks_sent += 1.
SdSendChunk ==
  /\ pc = "send_chunk"
  /\ LET m == ChunkMessage(Data[item], idx)
     IN \E o \in Exchange(m), n \in IncU16(chunks_sent) :
          /\ Send(m, o)
          /\ IF Verified(o, None)
             THEN IF n.panic
                  THEN /\ Return("Panic")
                       /\ UNCHANGED <<item, idx, chunks_sent>>
                  ELSE /\ Continue(IF NextItem(Data, item, idx) = 0
                                   THEN "data_chunks_sent" ELSE "send_chunk")
                       /\ item' = NextItem(Data, item, idx)
                       /\ idx' = NextIdx(Data, item, idx)
                       /\ chunks_sent' = n.value
             ELSE /\ Return(Failure(o))
                  /\ UNCHANGED <<item, idx, chunks_sent>>
  /\ UNCHANGED <<attempts, polls, Frame>>

\* send_data: DataChunksSent(chunks_sent), expecting no reply.
SdDataChunksSent ==
  /\ pc = "data_chunks_sent"
  /\ LET m == DataChunksSent(chunks_sent)
     IN \E o \in Exchange(m) :
          /\ Send(m, o)
          /\ IF Verified(o, None)
             THEN Continue("query_state") ELSE Return(Failure(o))
  /\ UNCHANGED <<Locals, Frame>>

\* A retry condition that allows one attempt too many.
RetryOnceMore(response) ==
  response = ReportState(Address, SdFailure) /\ attempts <= MAX_ATTEMPTS

\* A loop that never goes round again.
RetryNever(response) == FALSE

\* A loop that goes round again for as long as the sign reports failure.
RetryWhileFailing(response) == response = ReportState(Address, SdFailure)

\* send_data: the condition under which the loop goes round again.
Retry(response) ==
  response = ReportState(Address, SdFailure) /\ attempts < MAX_ATTEMPTS

\* send_data: QueryState; retry on failure while attempts remain, otherwise
\* verify the reply against success and leave the loop.
SdQueryState ==
  /\ pc = "query_state"
  /\ LET m == QueryState(Address)
     IN \E o \in Exchange(m) :
          /\ Send(m, o)
          /\ IF o.panic \/ o.reply = BusErr
             THEN Return(Failure(o)) /\ UNCHANGED attempts
             ELSE IF Retry(o.reply)
             THEN Continue("request_operation") /\ attempts' = attempts + 1
             ELSE IF verify_response(ReportState(Address, SdSuccess), o.reply)
             THEN /\ IF call.name = "configure" THEN Return("Ok")
                     ELSE Continue("pixels_complete")
                  /\ UNCHANGED attempts
             ELSE Return("UnexpectedResponse") /\ UNCHANGED attempts
  /\ UNCHANGED <<item, idx, chunks_sent, polls, Frame>>

\* --------------------------------------------------------- Sign: send_pages

\* Sign::send_pages is called on the k-th handle with pages P.
SendPages(k, P) ==
  /\ Begin(k, [name |-> "send_pages", pages |-> P])
  /\ pc' = "request_operation"

\* send_pages: PixelsComplete, expecting no reply.
SpPixelsComplete ==
  /\ pc = "pixels_complete"
  /\ LET m == PixelsComplete(Address)
     IN \E o \in Exchange(m) :
          /\ Send(m, o)
          /\ IF Verified(o, None)
             THEN Continue("final_query") ELSE Return(Failure(o))
  /\ UNCHANGED <<Locals, Frame>>

\* A match that forgets the guard `address == self.address`.
FlipStyleAnyAddress(response) ==
  IF response.type = "ReportState" /\ response.state = "ShowingPages"
  THEN "Automatic" ELSE "Manual"

\* send_pages: the PageFlipStyle the match on the final reply yields.
FlipStyle(response) ==
  IF response = ReportState(Address, "ShowingPages") THEN "Automatic" ELSE "Manual"

\* send_pages: the final QueryState and the match on its reply.
SpQueryState ==
  /\ pc = "final_query"
  /\ LET m == QueryState(Address)
     IN \E o \in Exchange(m) :
          /\ Send(m, o)
          /\ IF o.panic \/ o.reply = BusErr THEN Return(Failure(o))
             ELSE Return(FlipStyle(o.reply))
  /\ UNCHANGED <<Locals, Frame>>

\* -------------------------------------------------------- Sign: switch_page

\* Sign::show_loaded_page is called on the k-th handle.
ShowLoadedPage(k) ==
  /\ Begin(k, [name |-> "show_loaded_page", pages |-> <<>>])
  /\ pc' = "switch_query"

\* Sign::load_next_page is called on the k-th handle.
LoadNextPage(k) ==
  /\ Begin(k, [name |-> "load_next_page", pages |-> <<>>])
  /\ pc' = "switch_query"

\* A match that requests the operation again while the sign is still working.
AfterSwitchQueryImpatient(response) ==
  IF response = ReportState(Address, "ShowingPages") THEN "Ok"
  ELSE IF response = ReportState(Address, SwTarget) THEN "Ok"
  ELSE IF response \in {ReportState(Address, SwTrigger),
                        ReportState(Address, "PageLoadInProgress"),
                        ReportState(Address, "PageShowInProgress")}
  THEN "switch_request"
  ELSE "UnexpectedResponse"

\* A match that forgets the guards `address == self.address`.
AfterSwitchQueryAnyAddress(response) ==
  IF response.type # "ReportState" THEN "UnexpectedResponse"
  ELSE IF response.state = "ShowingPages" THEN "Ok"
  ELSE IF response.state = SwTarget THEN "Ok"
  ELSE IF response.state = SwTrigger THEN "switch_request"
  ELSE IF response.state \in {"PageLoadInProgress", "PageShowInProgress"}
  THEN "switch_query"
  ELSE "UnexpectedResponse"

\* A match without the ShowingPages arm.
AfterSwitchQueryNoShowingArm(response) ==
  IF response = ReportState(Address, SwTarget) THEN "Ok"
  ELSE IF response = ReportState(Address, SwTrigger) THEN "switch_request"
  ELSE IF response \in {ReportState(Address, "PageLoadInProgress"),
                        ReportState(Address, "PageShowInProgress")}
  THEN "switch_query"
  ELSE "UnexpectedResponse"

\* switch_page: the arm the match on a QueryState reply takes: break with Ok,
\* request the operation, poll again, or fail.
AfterSwitchQuery(response) ==
  IF response = ReportState(Address, "ShowingPages") THEN "Ok"
  ELSE IF response = ReportState(Address, SwTarget) THEN "Ok"
  ELSE IF response = ReportState(Address, SwTrigger) THEN "switch_request"
  ELSE IF response \in {ReportState(Address, "PageLoadInProgress"),
                        ReportState(Address, "PageShowInProgress")}
  THEN "switch_query"
  ELSE "UnexpectedResponse"

\* switch_page: QueryState and the match on its reply.
SwQueryState ==
  /\ pc = "switch_query"
  /\ polls < MaxPolls
  /\ polls' = polls + 1
  /\ LET m == QueryState(Address)
     IN \E o \in Exchange(m) :
          /\ Send(m, o)
          /\ IF o.panic \/ o.reply = BusErr THEN Return(Failure(o))
             ELSE IF AfterSwitchQuery(o.reply) \in {"Ok", "UnexpectedResponse"}
             THEN Return(AfterSwitchQuery(o.reply))
             ELSE Continue(AfterSwitchQuery(o.reply))
  /\ UNCHANGED <<attempts, item, idx, chunks_sent, Frame>>

\* switch_page: RequestOperation(operation), expecting its ack.
SwRequestOperation ==
  /\ pc = "switch_request"
  /\ LET m == RequestOperation(Address, SwOperation)
     IN \E o \in Exchange(m) :
          /\ Send(m, o)
          /\ IF Verified(o, AckOperation(Address, SwOperation))
             THEN Continue("switch_query") ELSE Return(Failure(o))
  /\ UNCHANGED <<Locals, Frame>>

\* ---------------------------------------------------------- Sign: shut_down

\* Sign::shut_down is called on the k-th handle.
ShutDown(k) ==
  /\ Begin(k, [name |-> "shut_down", pages |-> <<>>])
  /\ pc' = "goodbye"

\* shut_down: Goodbye, expecting no reply.
SdGoodbye ==
  /\ pc = "goodbye"
  /\ LET m == Goodbye(Address)
     IN \E o \in Exchange(m) :
          /\ Send(m, o)
          /\ IF Verified(o, None) THEN Return("Ok") ELSE Return(Failure(o))
  /\ UNCHANGED <<Locals, Frame>>

\* --------------------------------------------------- other users of the bus

\* One 16-byte chunk of pixel data.
PixelChunk == <<1, 16, 0, 0, 0, 0, 0, 0, 0, 0, 0, 0, 0, 0, 0, 0>>

\* What other users of the bus send between the calls of the Signs.
RawMessages ==
  {RequestOperation(a, op) : a \in Addresses, op \in Operation}
    \cup {DataChunksSent(c) : c \in 0..1}
    \cup {SendData(0, PixelChunk)}

\* Another user of the shared bus (an ODK, a test) has it process a message
\* between two Sign calls: VirtualSignBus::process_message.
RawMessage(m) ==
  /\ bus = "virtual"
  /\ pc = "idle"
  /\ result # "Panic"
  /\ rawLeft > 0
  /\ rawLeft' = rawLeft - 1
  /\ \E o \in VirtualSignBus_process_message(vsigns, m) :
       /\ vsigns' = o.signs
       /\ log' = <<[msg |-> m, reply |-> o.reply]>>
       /\ result' = IF o.panic THEN "Panic" ELSE "Raw"
  /\ call' = [name |-> "process_message", pages |-> <<>>]
  /\ pre' = vsigns
  /\ UNCHANGED <<bus, signs, pc, self, Locals, chain, drawing, port>>

\* ------------------------------------------------- the codec and its users

\* The frames handed to the codec: every message type the protocol knows and
\* one it does not, data of up to MaxData bytes, and one frame of full length.
CodecAddresses == {3, 4660}
MsgTypes == (0..6) \cup {255}
DataBytes == {0, 85, 255}
DataInputs == UNION {[1..n -> DataBytes] : n \in 0..MaxData}
LongData == [i \in 1..MaxDataLength |-> i % U8]

\* One frame of each of the one-byte patterns whose byte is not in DataBytes:
\* ReportState(ConfigReceived), RequestOperation(ReceiveConfig) and
\* AckOperation(ReceiveConfig).
PatternFrames ==
  {Frame_new(a, tb[1], <<tb[2]>>) :
     a \in CodecAddresses, tb \in {<<4, 7>>, <<3, 161>>, <<5, 149>>}}

Frames ==
  {Frame_new(a, t, d) : a \in CodecAddresses, t \in MsgTypes, d \in DataInputs}
    \cup {Frame_new(4660, 0, LongData)}
    \cup PatternFrames

\* The messages handed to the conversion: every variant of Message.
Messages ==
  {SendData(a, d) : a \in CodecAddresses, d \in DataInputs \cup {LongData}}
    \cup {DataChunksSent(a) : a \in CodecAddresses}
    \cup {Hello(a) : a \in CodecAddresses}
    \cup {QueryState(a) : a \in CodecAddresses}
    \cup {ReportState(a, s) : a \in CodecAddresses, s \in State \ {"ShowingPages"}}
    \cup {RequestOperation(a, op) : a \in CodecAddresses, op \in Operation}
    \cup {AckOperation(a, op) : a \in CodecAddresses, op \in Operation}
    \cup {PixelsComplete(a) : a \in CodecAddresses}
    \cup {Goodbye(a) : a \in CodecAddresses}
    \cup {Unknown(f) : f \in Frames}

Value(kind, value) == [kind |-> kind, value |-> value]
Last == chain[Len(chain)]

\* Whether a Result is the Err variant.
IsError(r) == "error" \in DOMAIN r

\* What a line can make of the bytes w written to it: one character replaced
\* by '1' or 'g', the letters in lower case, the last character lost, or a
\* '0', a "00" or a line feed added.
Garbled(w) ==
  {[w EXCEPT ![p] = c] : p \in 1..Len(w), c \in {49, 103}}
    \cup {[i \in 1..Len(w) |-> IF w[i] \in 65..70 THEN w[i] + 32 ELSE w[i]]}
    \cup {SubSeq(w, 1, Len(w) - 1), w \o <<48>>, w \o <<48, 48>>, w \o <<LF>>}

Convert(v) ==
  /\ Len(chain) >= 1
  /\ Len(chain) <= MaxConversions
  /\ chain' = Append(chain, v)
  /\ UNCHANGED <<bus, vsigns, signs, pc, self, call, attempts, item, idx,
                 chunks_sent, polls, log, result, pre, rawLeft, drawing, port>>

\* Frame::to_bytes is called on the frame at hand.
ToBytes ==
  /\ Len(chain) >= 1 /\ Last.kind = "frame"
  /\ Convert(Value("bytes", Frame_to_bytes(Last.value)))

\* Frame::to_bytes_with_newline is called on the frame at hand.
ToBytesWithNewline ==
  /\ Len(chain) >= 1 /\ Last.kind = "frame"
  /\ Convert(Value("bytes", Frame_to_bytes_with_newline(Last.value)))

\* The bytes just written reach the reader changed.
LineNoise ==
  /\ Len(chain) >= 2 /\ Last.kind = "bytes" /\ chain[Len(chain) - 1].kind = "frame"
  /\ \E w \in Garbled(Last.value) : Convert(Value("bytes", w))

\* Frame::from_bytes is called on the bytes at hand.
FromBytes ==
  /\ Len(chain) >= 1 /\ Last.kind = "bytes"
  /\ LET r == Frame_from_bytes(Last.value)
     IN Convert(Value(IF IsError(r) THEN "error" ELSE "frame", r))

\* Message::from is called on the frame at hand.
MessageFromFrame ==
  /\ Len(chain) >= 1 /\ Last.kind = "frame"
  /\ Convert(Value("message", Message_from(Last.value)))

\* Frame::from is called on the message at hand.
FrameFromMessage ==
  /\ Len(chain) >= 1 /\ Last.kind = "message"
  /\ Convert(Value("frame", Frame_from(Last.value)))

\* ------------------------------------------------------------ specification

InitCommon ==
  /\ pc = "idle"
  /\ self = 1
  /\ call = [name |-> "none", pages |-> <<>>]
  /\ attempts = 1
  /\ item = 0
  /\ idx = 0
  /\ chunks_sent = 0
  /\ polls = 0
  /\ log = <<>>
  /\ result = "none"

\* A Sign on a bus about which nothing is known.
Init ==
  /\ InitCommon
  /\ signs = Handles
  /\ bus = "scripted"
  /\ vsigns = <<>>
  /\ pre = <<>>
  /\ rawLeft = 0
  /\ chain = <<>>
  /\ drawing = <<>>
  /\ port = NoPort

\* Two Signs on a VirtualSignBus::new of two fresh VirtualSigns; the bus is
\* shared with other users (RawMessage).
InitVirtual ==
  /\ InitCommon
  /\ signs = Handles
  /\ bus = "virtual"
  /\ vsigns = [k \in 1..Len(Handles) |-> VirtualSign_new(Handles[k].address)]
  /\ pre = vsigns
  /\ rawLeft = MaxRaw
  /\ chain = <<>>
  /\ drawing = <<>>
  /\ port = NoPort

\* Two Signs on a VirtualSignBus::new of two fresh VirtualSigns that nobody
\* else uses: sign_virtual_sign_interaction.
InitSigns ==
  /\ InitCommon
  /\ signs = Handles
  /\ bus = "virtual"
  /\ vsigns = [k \in 1..Len(Handles) |-> VirtualSign_new(Handles[k].address)]
  /\ pre = vsigns
  /\ rawLeft = 0
  /\ chain = <<>>
  /\ drawing = <<>>
  /\ port = NoPort

Calls ==
  \E k \in 1..Len(signs) :
    \/ Configure(k)
    \/ \E P \in PageInputs(k) : SendPages(k, P)
    \/ ShowLoadedPage(k)
    \/ LoadNextPage(k)
    \/ ShutDown(k)

Steps ==
  \/ EnsureHello
  \/ EnsureStartReset
  \/ EnsureHelloReady
  \/ EnsureFinishReset
  \/ EnsureHelloUnconfigured
  \/ SdRequestOperation
  \/ SdSendChunk
  \/ SdDataChunksSent
  \/ SdQueryState
  \/ SpPixelsComplete
  \/ SpQueryState
  \/ SwQueryState
  \/ SwRequestOperation
  \/ SdGoodbye

Next == Calls \/ Steps

NextVirtual == Calls \/ Steps \/ \E m \in RawMessages : RawMessage(m)

Spec == Init /\ [][Next]_vars

SpecVirtual == InitVirtual /\ [][NextVirtual]_vars

SpecSigns == InitSigns /\ [][Next]_vars

\* The 16-byte blocks sent as configuration: two known sign types; the
\* blocks of the tests unknown_config and invalid_config, the first with the
\* dimensions 12 x 7 of a one-chunk page; the first two bytes of a known type
\* with another width; and a block whose four width bytes add up to 256.
Zeros(n) == [i \in 1..n |-> 0]
ConfigBlocks ==
  {to_bytes("Max3000Dash30x7"), to_bytes("HorizonDash40x12"),
   <<4, 153, 0, 15, 7, 12, 0, 0, 0, 16>> \o Zeros(6),
   <<15, 153, 0, 15, 9, 28, 28, 0, 0, 16>> \o Zeros(6),
   <<4, 38, 0, 3, 7, 12, 0, 0, 0, 8>> \o Zeros(6),
   <<4, 153, 0, 15, 7, 128, 128, 0, 0, 16>> \o Zeros(6)}

\* SendData as a sign being configured sees it: the blocks at offset 0, one
\* at another offset, and one that is a byte short.
ConfigMessages ==
  {SendData(0, d) : d \in ConfigBlocks}
    \cup {SendData(16, to_bytes("Max3000Dash30x7")),
          SendData(0, SubSeq(to_bytes("Max3000Dash30x7"), 1, 15))}

\* SendData of pixel data: the first chunk of a page and a later one.
PixelMessages == {SendData(0, PixelChunk), SendData(16, PixelChunk)}

\* What a bus can hand to VirtualSign::process_message: every addressed
\* message for the sign's address and for another one, the unaddressed ones,
\* and messages no sign acts on.
SignMessages ==
  UNION {{Hello(a), QueryState(a), Goodbye(a), PixelsComplete(a)}
           \cup {RequestOperation(a, op) : op \in Operation} : a \in Addresses}
    \cup {DataChunksSent(c) : c \in 0..MaxChunks}
    \cup ConfigMessages
    \cup PixelMessages
    \cup {ReportState(3, "PageLoaded"), AckOperation(3, "ReceiveConfig"),
          Unknown(Frame_new(3, 255, <<>>))}

\* A VirtualSign::new(Address(3)) on its own.
InitSign ==
  /\ InitCommon
  /\ signs = Handles
  /\ bus = "sign"
  /\ vsigns = <<VirtualSign_new(3)>>
  /\ pre = vsigns
  /\ rawLeft = 0
  /\ chain = <<>>
  /\ drawing = <<>>
  /\ port = NoPort

\* VirtualSign::process_message(m) on that sign; log keeps the message and
\* the reply, pre the sign before the call. At most MaxChunks chunks are sent
\* in one transfer, and a sign that collects pixels is sent pixel data.
ProcessMessage(m) ==
  /\ bus = "sign"
  /\ result # "Panic"
  /\ m.type = "SendData" =>
       /\ vsigns[1].data_chunks < MaxChunks
       /\ vsigns[1].state = "PixelsInProgress" => m \in PixelMessages
  /\ \E o \in VirtualSign_process_message(vsigns[1], m) :
       /\ vsigns' = <<o.sign>>
       /\ log' = <<[msg |-> m, reply |-> o.reply]>>
       /\ result' = IF o.panic THEN "Panic" ELSE "Raw"
  /\ call' = [name |-> "process_message", pages |-> <<>>]
  /\ pre' = vsigns
  /\ UNCHANGED <<bus, signs, pc, self, Locals, rawLeft, chain, drawing, port>>

NextSign == \E m \in SignMessages : ProcessMessage(m)

SpecSign == InitSign /\ [][NextSign]_vars

\* The signs handed to VirtualSignBus::new, in construction order: two of one
\* address with one of another address between them.
BusSigns == <<VirtualSign_new(3), VirtualSign_new(6), VirtualSign_new(3)>>

\* What the users of a VirtualSignBus hand to it: the addressed messages of
\* both addresses, the unaddressed ones, and one no sign acts on.
BusMessages ==
  UNION {{Hello(a), Goodbye(a), PixelsComplete(a)}
           \cup {RequestOperation(a, op) : op \in Operation} : a \in Addresses}
    \cup {DataChunksSent(c) : c \in 0..1}
    \cup {SendData(0, to_bytes("Max3000Dash30x7")), SendData(0, PixelChunk)}
    \cup {AckOperation(3, "ReceiveConfig")}

\* A VirtualSignBus::new(BusSigns) with no Sign on it.
InitBus ==
  /\ InitCommon
  /\ signs = Handles
  /\ bus = "bus"
  /\ vsigns = BusSigns
  /\ pre = vsigns
  /\ rawLeft = MaxBus
  /\ chain = <<>>
  /\ drawing = <<>>
  /\ port = NoPort

\* VirtualSignBus::process_message(m) on that bus; log keeps the message and
\* the reply, pre the signs before the call. At most MaxBus messages are sent.
BusMessage(m) ==
  /\ bus = "bus"
  /\ result # "Panic"
  /\ rawLeft > 0
  /\ rawLeft' = rawLeft - 1
  /\ \E o \in VirtualSignBus_process_message(vsigns, m) :
       /\ vsigns' = o.signs
       /\ log' = <<[msg |-> m, reply |-> o.reply]>>
       /\ result' = IF o.panic THEN "Panic" ELSE "Raw"
  /\ call' = [name |-> "process_message", pages |-> <<>>]
  /\ pre' = vsigns
  /\ UNCHANGED <<bus, signs, pc, self, Locals, chain, drawing, port>>

NextBus == \E m \in BusMessages : BusMessage(m)

SpecBus == InitBus /\ [][NextBus]_vars

\* FrameError::Io
IoError == [error |-> "Io"]

\* The index of the first line feed in bytes, 0 if it has none.
FirstLF(bytes) ==
  IF \E i \in 1..Len(bytes) : bytes[i] = LF
  THEN CHOOSE i \in 1..Len(bytes) : bytes[i] = LF /\ \A j \in 1..(i - 1) : bytes[j] # LF
  ELSE 0

\* A Frame::read that buffers two bytes at a time: a byte read after the line
\* feed is dropped with the buffer.
Frame_read_two_byte_buffer(data, offset, good) ==
  LET rest == SubSeq(data, offset + 1, Len(data))
      lf == FirstLF(rest)
      n == IF lf = 0 THEN Len(rest) ELSE lf
      reads == IF lf = 0 THEN n + 1 ELSE n
      taken == IF n % 2 = 1 /\ n < Len(rest) THEN n + 1 ELSE n
  IN IF good >= 0 /\ good < reads
     THEN [result |-> IoError, offset |-> offset + good]
     ELSE [result |-> Frame_from_bytes(SubSeq(rest, 1, n)), offset |-> offset + taken]

\* Frame::read on a reader that holds data from offset on and delivers good
\* bytes before a read fails (-1: no read fails). read_until asks the one-byte
\* BufReader for a byte at a time, up to the first line feed or until a read
\* finds the end of the input; a failed read ends the call with the bytes read
\* so far dropped. What was read goes to Frame::from_bytes.
Frame_read(data, offset, good) ==
  LET rest == SubSeq(data, offset + 1, Len(data))
      lf == FirstLF(rest)
      n == IF lf = 0 THEN Len(rest) ELSE lf
      reads == IF lf = 0 THEN n + 1 ELSE n
  IN IF good >= 0 /\ good < reads
     THEN [result |-> IoError, offset |-> offset + good]
     ELSE [result |-> Frame_from_bytes(SubSeq(rest, 1, n)), offset |-> offset + n]

\* What a call of Frame::read leaves in the history of the port.
ReadOp(from, good, r) ==
  [op |-> "read", from |-> from, good |-> good, to |-> r.offset, result |-> r.result]

\* Frame::write: write_all of to_bytes_with_newline, which the writer takes
\* (ok) or fails; what it leaves in the history of the port, and its result.
WriteOp(frame, ok) ==
  [op |-> "write", bytes |-> Frame_to_bytes_with_newline(frame), ok |-> ok]
Frame_write(frame, ok) == IF ok THEN [ok |-> TRUE] ELSE IoError

\* The lines a port delivers: two frames as to_bytes_with_newline writes
\* them, a frame that ends in a line feed alone, an empty line, a line that
\* is no frame, and a frame without its newline.
PortLines ==
  {Frame_to_bytes_with_newline(Frame_from(ReportState(3, "Unconfigured"))),
   Frame_to_bytes_with_newline(Frame_from(AckOperation(3, "ReceiveConfig"))),
   Frame_to_bytes(Frame_from(ReportState(3, "PageLoaded"))) \o <<LF>>,
   <<CR, LF>>,
   <<Colon, 48, 49, CR, LF>>,
   Frame_to_bytes(Frame_from(Hello(3)))}

RECURSIVE Concat(_)
Concat(lines) == IF lines = <<>> THEN <<>> ELSE Head(lines) \o Concat(Tail(lines))

\* What a reader holds: up to MaxLines of these lines, one after the other.
Streams == {Concat(ls) : ls \in UNION {[1..n -> PortLines] : n \in 0..MaxLines}}

\* How many bytes a reader delivers before a read fails: -1 for never.
ReadFailures == {-1, 0, 2}

\* A reader that holds one of the streams; nothing was read yet.
InitPort ==
  /\ InitCommon
  /\ signs = Handles
  /\ bus = "none"
  /\ vsigns = <<>>
  /\ pre = <<>>
  /\ rawLeft = 0
  /\ chain = <<>>
  /\ drawing = <<>>
  /\ port \in {[data |-> d, offset |-> 0, ops |-> <<>>] : d \in Streams}

\* Frame::read is called on the reader.
FrameRead(good) ==
  /\ bus = "none"
  /\ port.data # <<>> \/ port.ops # <<>>
  /\ Len(port.ops) < MaxPortCalls
  /\ LET r == Frame_read(port.data, port.offset, good)
     IN port' = [port EXCEPT !.offset = r.offset,
                             !.ops = Append(@, ReadOp(port.offset, good, r))]
  /\ UNCHANGED <<bus, vsigns, signs, pc, self, call, attempts, item, idx,
                 chunks_sent, polls, log, result, pre, rawLeft, chain, drawing>>

NextPort == \E good \in ReadFailures : FrameRead(good)

SpecPort == InitPort /\ [][NextPort]_vars

\* A response_expected that also waits for a reply to Goodbye.
response_expected_to_goodbye(message) ==
  message.type \in {"Hello", "QueryState", "RequestOperation", "Goodbye"}

\* response_expected (serial_sign_bus.rs)
response_expected(message) ==
  message.type \in {"Hello", "QueryState", "RequestOperation"}

\* SerialSignBus::process_message on port p: the frame of the message is
\* written, which the port takes (ok) or fails; then, if a response is
\* expected, one frame is read and converted. Either `?` returns the error.
\* (The pauses after a SendData and after a reply take time and nothing else.)
SerialSignBus_process_message(p, message, ok, good) ==
  LET frame == Frame_from(message)
      written == [p EXCEPT !.ops = Append(@, WriteOp(frame, ok))]
      r == Frame_read(p.data, p.offset, good)
  IN IF IsError(Frame_write(frame, ok)) THEN [port |-> written, reply |-> BusErr]
     ELSE IF response_expected(message)
     THEN [port |-> [written EXCEPT !.offset = r.offset,
                                    !.ops = Append(@, ReadOp(p.offset, good, r))],
           reply |-> IF IsError(r.result) THEN BusErr ELSE Message_from(r.result)]
     ELSE [port |-> written, reply |-> None]

\* The messages handed to a SerialSignBus: three that expect a response and
\* four that do not.
SerialMessages ==
  {Hello(3), QueryState(3), RequestOperation(3, "ReceiveConfig"),
   SendData(0, <<1, 16>>), DataChunksSent(1), PixelsComplete(3), Goodbye(3)}

\* What the signs on the line have sent back: nothing, replies as
\* to_bytes_with_newline writes them, and a line that is no frame before one.
SerialReplies ==
  LET unconfigured == Frame_to_bytes_with_newline(Frame_from(ReportState(3, "Unconfigured")))
      ack == Frame_to_bytes_with_newline(Frame_from(AckOperation(3, "ReceiveConfig")))
  IN {<<>>, unconfigured, unconfigured \o ack, ack \o unconfigured \o unconfigured,
      <<Colon, 48, 49, CR, LF>> \o unconfigured}

\* A SerialSignBus::new on a port that holds some replies.
InitSerial ==
  /\ InitCommon
  /\ signs = Handles
  /\ bus = "serial"
  /\ vsigns = <<>>
  /\ pre = <<>>
  /\ rawLeft = 0
  /\ chain = <<>>
  /\ drawing = <<>>
  /\ port \in {[data |-> d, offset |-> 0, ops |-> <<>>] : d \in SerialReplies}

\* SerialSignBus::process_message(m); log keeps the message and the result of
\* every call made on the bus.
SerialMessage(m, ok, good) ==
  /\ bus = "serial"
  /\ Len(log) < MaxPortCalls
  /\ LET o == SerialSignBus_process_message(port, m, ok, good)
     IN /\ port' = o.port
        /\ log' = Append(log, [msg |-> m, reply |-> o.reply])
  /\ call' = [name |-> "process_message", pages |-> <<>>]
  /\ UNCHANGED <<bus, vsigns, signs, pc, self, attempts, item, idx,
                 chunks_sent, polls, result, pre, rawLeft, chain, drawing>>

NextSerial ==
  \E m \in SerialMessages, ok \in BOOLEAN, good \in {-1, 0} : SerialMessage(m, ok, good)

SpecSerial == InitSerial /\ [][NextSerial]_vars

\* What a call of bus.process_message and the return of Odk::process_message
\* leave in the history of the port's owner.
BusOp(message, reply) == [op |-> "bus", msg |-> message, reply |-> reply]
ReturnOp(r) == [op |-> "return", result |-> r]

\* An Odk::process_message that reports every failure as Communication.
Odk_process_message_one_kind(p, good, reply, ok) ==
  LET r == Frame_read(p.data, p.offset, good)
      read == [p EXCEPT !.offset = r.offset, !.ops = Append(@, ReadOp(p.offset, good, r))]
      message == Message_from(r.result)
      passed == [read EXCEPT !.ops = Append(@, BusOp(message, reply))]
      frame == Frame_from(reply)
      written == [passed EXCEPT !.ops = Append(@, WriteOp(frame, ok))]
      Ends(q, e) == [q EXCEPT !.ops = Append(@, ReturnOp(e))]
  IN IF IsError(r.result) THEN Ends(read, "Communication")
     ELSE IF reply = BusErr THEN Ends(passed, "Communication")
     ELSE IF reply = None THEN Ends(passed, "Ok")
     ELSE IF IsError(Frame_write(frame, ok)) THEN Ends(written, "Communication")
     ELSE Ends(written, "Ok")

\* Odk::process_message on port p with a bus that answers reply: a frame is
\* read (Communication if that fails), converted and passed to the bus (Bus
\* if that fails), and Some(reply) is written back (Communication if that
\* fails). What is returned is the port with the history of the call.
Odk_process_message(p, good, reply, ok) ==
  LET r == Frame_read(p.data, p.offset, good)
      read == [p EXCEPT !.offset = r.offset, !.ops = Append(@, ReadOp(p.offset, good, r))]
      message == Message_from(r.result)
      passed == [read EXCEPT !.ops = Append(@, BusOp(message, reply))]
      frame == Frame_from(reply)
      written == [passed EXCEPT !.ops = Append(@, WriteOp(frame, ok))]
      Ends(q, e) == [q EXCEPT !.ops = Append(@, ReturnOp(e))]
  IN IF IsError(r.result) THEN Ends(read, "Communication")
     ELSE IF reply = BusErr THEN Ends(passed, "Bus")
     ELSE IF reply = None THEN Ends(passed, "Ok")
     ELSE IF IsError(Frame_write(frame, ok)) THEN Ends(written, "Communication")
     ELSE Ends(written, "Ok")

\* What an ODK sends: nothing, frames as to_bytes_with_newline writes them,
\* the line of the test format_errors, and a line that is no frame.
OdkRequests ==
  LET hello == Frame_to_bytes_with_newline(Frame_from(Hello(3)))
      config == Frame_to_bytes_with_newline(Frame_from(RequestOperation(3, "ReceiveConfig")))
      chunks == Frame_to_bytes_with_newline(Frame_from(DataChunksSent(1)))
  IN {<<>>, hello, hello \o config, config \o chunks \o hello,
      <<Colon, 48, 49, CR, LF>> \o hello}

\* What the bus given to Odk::new may answer: nothing, an error, or a message.
OdkBusReplies ==
  {None, BusErr, ReportState(3, "Unconfigured"), AckOperation(3, "ReceiveConfig")}

\* An Odk::new on a port that holds some requests.
InitOdk ==
  /\ InitCommon
  /\ signs = Handles
  /\ bus = "odk"
  /\ vsigns = <<>>
  /\ pre = <<>>
  /\ rawLeft = MaxPortCalls
  /\ chain = <<>>
  /\ drawing = <<>>
  /\ port \in {[data |-> d, offset |-> 0, ops |-> <<>>] : d \in OdkRequests}

\* Odk::process_message is called; rawLeft counts the calls still to make.
OdkProcessMessage(good, reply, ok) ==
  /\ bus = "odk"
  /\ rawLeft > 0
  /\ rawLeft' = rawLeft - 1
  /\ port' = Odk_process_message(port, good, reply, ok)
  /\ result' = port'.ops[Len(port'.ops)].result
  /\ call' = [name |-> "process_message", pages |-> <<>>]
  /\ UNCHANGED <<bus, vsigns, signs, pc, self, attempts, item, idx,
                 chunks_sent, polls, log, pre, chain, drawing>>

NextOdk ==
  \E good \in {-1, 0}, reply \in OdkBusReplies, ok \in BOOLEAN :
    OdkProcessMessage(good, reply, ok)

SpecOdk == InitOdk /\ [][NextOdk]_vars

\* The pages built: empty ones, one of a single pixel, columns of one and of
\* two bytes, and one whose data ends on a multiple of 16 bytes.
PageIds == {1, 255}
PageSizes ==
  {<<0, 0>>, <<0, 7>>, <<3, 0>>, <<1, 1>>, <<2, 8>>, <<2, 9>>, <<12, 1>>, <<1, 16>>}

\* A page is made with Page::new; no Sign is at work.
InitPage ==
  /\ InitCommon
  /\ signs = Handles
  /\ bus = "none"
  /\ vsigns = <<>>
  /\ pre = <<>>
  /\ rawLeft = 0
  /\ chain = <<>>
  /\ drawing \in {<<[page |-> Page_new(id, wh[1], wh[2]), id |-> id,
                       x |-> 0, y |-> 0, value |-> FALSE]>> :
                    id \in PageIds, wh \in PageSizes}
  /\ port = NoPort

\* Page::set_pixel on the page drawn so far, at a coordinate inside it.
SetPixel(x, y, value) ==
  /\ Len(drawing) >= 1
  /\ Len(drawing) <= MaxDraws
  /\ x < drawing[Len(drawing)].page.width
  /\ y < drawing[Len(drawing)].page.height
  /\ drawing' = Append(drawing, [page |-> set_pixel(drawing[Len(drawing)].page, x, y, value),
                                  id |-> drawing[1].id,
                                  x |-> x, y |-> y, value |-> value])
  /\ UNCHANGED <<bus, vsigns, signs, pc, self, call, attempts, item, idx,
                 chunks_sent, polls, log, result, pre, rawLeft, chain, port>>

NextPage ==
  \E x \in 0..11, y \in 0..15, value \in BOOLEAN : SetPixel(x, y, value)

SpecPage == InitPage /\ [][NextPage]_vars

\* The codec is handed a frame or a message; no Sign is at work.
InitCodec ==
  /\ InitCommon
  /\ signs = Handles
  /\ bus = "none"
  /\ vsigns = <<>>
  /\ pre = <<>>
  /\ rawLeft = 0
  /\ chain \in {<<Value("frame", f)>> : f \in Frames}
               \cup {<<Value("message", m)>> : m \in Messages}
  /\ drawing = <<>>
  /\ port = NoPort

NextCodec ==
  \/ ToBytes
  \/ ToBytesWithNewline
  \/ LineNoise
  \/ FromBytes
  \/ MessageFromFrame
  \/ FrameFromMessage

SpecCodec == InitCodec /\ [][NextCodec]_vars

\* The Signs on either bus.
SpecAnyBus == (Init \/ InitVirtual) /\ [][NextVirtual]_vars

\* ------------------------------------------------- observations on one call

Sent == 1..Len(log)
Msg(i) == log[i].msg
Reply(i) == log[i].reply

InDataSend == call.name \in {"configure", "send_pages"}
InSwitchPage == call.name \in {"show_loaded_page", "load_next_page"}

\* The call returned r right after exchange i: nothing was sent after it.
EndsAt(i, r) == Len(log) = i /\ pc = "idle" /\ result = r

\* The QueryState exchanges of send_data: those that follow a DataChunksSent.
PostTransferQueries ==
  {i \in 2..Len(log) :
     Msg(i) = QueryState(Address) /\ Msg(i - 1).type = "DataChunksSent"}

FailureReplies ==
  {i \in PostTransferQueries : Reply(i) = ReportState(Address, SdFailure)}

SuccessReplies ==
  {i \in PostTransferQueries : Reply(i) = ReportState(Address, SdSuccess)}

\* The RequestOperation(operation) exchanges of send_data: one opens each attempt.
OperationRequests == {i \in Sent : Msg(i) = RequestOperation(Address, SdOperation)}

\* The exchange that opened the attempt exchange i belongs to.
AttemptStart(i) ==
  CHOOSE r \in OperationRequests :
    r <= i /\ \A r2 \in OperationRequests : r2 <= i => r2 <= r

\* The pieces of at most 16 bytes a slice is cut into, as SendData messages
\* with offsets 0, 16, 32, ...
Pieces(slice) ==
  [i \in 1..((Len(slice) + 15) \div 16) |->
     SendData(16 * (i - 1), SubSeq(slice, 16 * (i - 1) + 1, Min(16 * i, Len(slice))))]

RECURSIVE AllPieces(_, _)
AllPieces(data, k) ==
  IF k > Len(data) THEN <<>> ELSE Pieces(data[k]) \o AllPieces(data, k + 1)

RECURSIVE Joined(_, _)
Joined(pieces, k) ==
  IF k > Len(pieces) THEN <<>> ELSE pieces[k].data \o Joined(pieces, k + 1)

\* --------------------------------------------------------------------- C1

\* C1: when the post-transfer QueryState is answered ReportState(addr, failure)
\* on three attempts of one configure or send_pages call, the call returns
\* UnexpectedResponse right after the third of these QueryState exchanges, it
\* has sent RequestOperation(operation) exactly three times, and there is no
\* fourth failure reply because nothing is sent after the third.
C1_ThreeFailuresGiveUp ==
  InDataSend /\ Cardinality(FailureReplies) >= 3 =>
    /\ Cardinality(FailureReplies) = 3
    /\ \E i \in FailureReplies : EndsAt(i, "UnexpectedResponse")
    /\ Cardinality(OperationRequests) = 3

\* A send_pages call of two pages whose three attempts were all answered failure.
C1_Witness ==
  /\ call.name = "send_pages"
  /\ Len(call.pages) = 2
  /\ Cardinality(FailureReplies) = 3
  /\ result = "UnexpectedResponse"

\* --------------------------------------------------------------------- C2

\* C2: after a failure reply on attempt k < 3 the call goes on, and what it
\* sends next repeats the attempt before message by message: first
\* RequestOperation(operation), then the SendData chunks again from offset 0,
\* DataChunksSent with the same count, QueryState; the repeat is cut short only
\* by a reply other than the expected one. As soon as a post-transfer QueryState
\* is answered ReportState(addr, success), send_data is over: configure returns
\* Ok there, send_pages moves on to PixelsComplete, and no RequestOperation,
\* SendData, DataChunksSent or post-transfer QueryState follows.
C2_RetryRepeatsWholeAttempt ==
  InDataSend =>
    /\ \A i \in FailureReplies :
         Cardinality({f \in FailureReplies : f <= i}) < 3 =>
           LET s == AttemptStart(i)
               n == i - s + 1
           IN /\ Len(log) = i => pc = "request_operation"
              /\ Len(log) > i => Msg(i + 1) = RequestOperation(Address, SdOperation)
              /\ Len(log) > i + 1 /\ Msg(i + 2).type = "SendData" => Msg(i + 2).offset = 0
              /\ \A j \in 1..n : i + j <= Len(log) => Msg(i + j) = Msg(s + j - 1)
              /\ \A j \in 1..(n - 1) :
                   i + j = Len(log) /\ pc = "idle" => Reply(i + j) # Reply(s + j - 1)
    /\ \A i \in SuccessReplies :
         /\ \A j \in (i + 1)..Len(log) :
              /\ Msg(j).type \notin {"RequestOperation", "SendData", "DataChunksSent"}
              /\ j \notin PostTransferQueries
         /\ IF call.name = "configure" THEN EndsAt(i, "Ok")
            ELSE Len(log) = i => pc = "pixels_complete"

\* A configure call that succeeded on its third attempt.
C2_Witness ==
  /\ call.name = "configure"
  /\ Cardinality(FailureReplies) = 2
  /\ \E i \in SuccessReplies : EndsAt(i, "Ok")

\* --------------------------------------------------------------------- C3

\* C3: in configure and send_pages every attempt after the first directly
\* follows a failure reply to a post-transfer QueryState, and the call returns
\* UnexpectedResponse with nothing further sent right after: a post-transfer
\* QueryState reply that is neither success nor failure, a reply to
\* RequestOperation(operation) other than the matching AckOperation (none
\* included), or any reply to a SendData or a DataChunksSent.
C3_OnlyFailureRetries ==
  InDataSend =>
    /\ \A r \in OperationRequests :
         (\E r2 \in OperationRequests : r2 < r) => (r - 1) \in FailureReplies
    /\ \A i \in PostTransferQueries :
         Reply(i) \notin {ReportState(Address, SdSuccess),
                          ReportState(Address, SdFailure), BusErr}
           => EndsAt(i, "UnexpectedResponse")
    /\ \A i \in OperationRequests :
         Reply(i) \notin {AckOperation(Address, SdOperation), BusErr}
           => EndsAt(i, "UnexpectedResponse")
    /\ \A i \in Sent :
         Msg(i).type \in {"SendData", "DataChunksSent"} /\ Reply(i) \notin {None, BusErr}
           => EndsAt(i, "UnexpectedResponse")

\* A send_pages call whose second attempt ended on a reply to a SendData.
C3_Witness ==
  /\ call.name = "send_pages"
  /\ Cardinality(FailureReplies) = 1
  /\ Len(log) >= 1
  /\ Msg(Len(log)).type = "SendData"
  /\ Reply(Len(log)).type = "ReportState"
  /\ result = "UnexpectedResponse"

\* --------------------------------------------------------------------- C4

\* The exchanges ensure_unconfigured makes after its first Hello, by the reply
\* to that Hello.
ResetSteps(first) ==
  LET start == [msg |-> RequestOperation(Address, "StartReset"),
                reply |-> AckOperation(Address, "StartReset")]
      ready == [msg |-> Hello(Address), reply |-> ReportState(Address, "ReadyToReset")]
      finish == [msg |-> RequestOperation(Address, "FinishReset"),
                 reply |-> AckOperation(Address, "FinishReset")]
      fresh == [msg |-> Hello(Address), reply |-> ReportState(Address, "Unconfigured")]
  IN IF first = ReportState(Address, "Unconfigured") THEN <<>>
     ELSE IF first = ReportState(Address, "ReadyToReset") THEN <<finish, fresh>>
     ELSE <<start, ready, finish, fresh>>

\* C4: configure first sends Hello(addr). By its reply it then sends nothing
\* more of this phase (Unconfigured), FinishReset and Hello (ReadyToReset), or
\* StartReset, Hello, FinishReset and Hello (anything else), each expecting the
\* reply named in ResetSteps. A reply other than the expected one ends the call
\* with UnexpectedResponse; RequestOperation(ReceiveConfig) is sent only after
\* every expected reply came, and it is what follows the phase.
C4_EnsureUnconfiguredPhase ==
  call.name = "configure" /\ Len(log) >= 1 =>
    /\ Msg(1) = Hello(Address)
    /\ Reply(1) # BusErr =>
         LET E == ResetSteps(Reply(1))
         IN /\ \A j \in 1..Len(E) :
                 1 + j <= Len(log) =>
                   /\ Msg(1 + j) = E[j].msg
                   /\ Reply(1 + j) \notin {E[j].reply, BusErr}
                        => EndsAt(1 + j, "UnexpectedResponse")
            /\ \A i \in Sent :
                 Msg(i) = RequestOperation(Address, "ReceiveConfig") =>
                   /\ i > 1 + Len(E)
                   /\ \A j \in 1..Len(E) : Reply(1 + j) = E[j].reply
            /\ Len(log) > 1 + Len(E) =>
                 Msg(2 + Len(E)) = RequestOperation(Address, "ReceiveConfig")
            /\ pc = "idle" /\ Len(log) <= 1 + Len(E) =>
                 Len(log) >= 2 /\ Reply(Len(log)) # E[Len(log) - 1].reply

\* A configure call that found the sign ReadyToReset, finished the reset and
\* went on to request ReceiveConfig.
C4_Witness ==
  /\ call.name = "configure"
  /\ Len(log) >= 4
  /\ Reply(1) = ReportState(Address, "ReadyToReset")
  /\ Msg(2) = RequestOperation(Address, "FinishReset")
  /\ Msg(4) = RequestOperation(Address, "ReceiveConfig")

\* ------------------------------------------------------------ C5 and C6

\* The virtual sign, among vs, that has the address of the Sign whose call
\* runs or ran last.
Own(vs) == vs[CHOOSE k \in 1..Len(vs) : vs[k].address = Address]

\* The other virtual signs among vs.
Others(vs) == {vs[k] : k \in {j \in 1..Len(vs) : vs[j].address # Address}}

\* v holds the configuration of the k-th Sign's type.
HoldsConfigOf(v, k) ==
  /\ v.sign_type = signs[k].sign_type
  /\ <<v.width, v.height>> = dimensions(signs[k].sign_type)

\* C5: on a VirtualSignBus holding a VirtualSign of the Sign's address,
\* whatever state that virtual sign was in, a configure call returns Ok and
\* leaves it in ConfigReceived, with the Sign's type, that type's width and
\* height, and no pages.
C5_ConfigureFromEveryState ==
  bus = "virtual" /\ call.name = "configure" /\ pc = "idle" =>
    /\ result = "Ok"
    /\ Own(vsigns).state = "ConfigReceived"
    /\ HoldsConfigOf(Own(vsigns), self)
    /\ Own(vsigns).pages = <<>>

\* What holds of configure instead: the call either panics inside the bus, or
\* ends as C5 says.
ConfigureUnlessPanic ==
  bus = "virtual" /\ call.name = "configure" /\ pc = "idle" /\ result # "Panic" =>
    /\ result = "Ok"
    /\ Own(vsigns).state = "ConfigReceived"
    /\ HoldsConfigOf(Own(vsigns), self)
    /\ Own(vsigns).pages = <<>>

\* The virtual sign is as the Sign's configure and later calls leave it.
ConfiguredBySign(v, k) ==
  /\ HoldsConfigOf(v, k)
  /\ v.state \in {"ConfigReceived", "PageLoaded", "PageShown"}

\* C6: when the virtual sign holds the Sign's configuration, send_pages(P)
\* returns Ok (a PageFlipStyle) and leaves the virtual sign in PageLoaded with
\* exactly the pages P, in order, whatever pages it held before.
C6_SendPagesStoresPages ==
  /\ bus = "virtual"
  /\ call.name = "send_pages"
  /\ pc = "idle"
  /\ ConfiguredBySign(Own(pre), self)
  => /\ result \in {"Manual", "Automatic"}
     /\ Own(vsigns).state = "PageLoaded"
     /\ Own(vsigns).pages = call.pages

\* What holds of send_pages instead: the call either panics inside the bus, or
\* ends as C6 says.
SendPagesUnlessPanic ==
  /\ bus = "virtual"
  /\ call.name = "send_pages"
  /\ pc = "idle"
  /\ result # "Panic"
  /\ ConfiguredBySign(Own(pre), self)
  => /\ result = "Manual"
     /\ Own(vsigns).state = "PageLoaded"
     /\ Own(vsigns).pages = call.pages

\* A panic of such a configure or send_pages call comes from flush_pixels of
\* another virtual sign: one that was receiving pixels when the call began.
PanicOnlyFromAnotherSign ==
  /\ bus = "virtual"
  /\ result = "Panic"
  /\ \/ call.name = "configure"
     \/ call.name = "send_pages" /\ ConfiguredBySign(Own(pre), self)
  => \E v \in Others(pre) : v.state = "PixelsInProgress" /\ v.width > 0 /\ v.height > 0

\* --------------------------------------------------------------------- C7

C8_FlipStyleFromFinalQuery ==
  call.name = "send_pages" =>
    /\ \A i \in SuccessReplies :
         /\ Len(log) = i => pc = "pixels_complete"
         /\ Len(log) > i =>
              /\ Msg(i + 1) = PixelsComplete(Address)
              /\ Reply(i + 1) \notin {None, BusErr} => EndsAt(i + 1, "UnexpectedResponse")
              /\ Reply(i + 1) = None /\ Len(log) = i + 1 => pc = "final_query"
         /\ Len(log) > i + 1 =>
              /\ Msg(i + 2) = QueryState(Address)
              /\ Len(log) = i + 2
              /\ pc = "idle"
              /\ Reply(i + 2) = ReportState(Address, "ShowingPages") => result = "Automatic"
              /\ Reply(i + 2) \notin {ReportState(Address, "ShowingPages"), BusErr}
                   => result = "Manual"
    /\ result \in {"Automatic", "Manual"} =>
         /\ (Len(log) - 2) \in SuccessReplies
         /\ result = "Automatic" <=> Reply(Len(log)) = ReportState(Address, "ShowingPages")

\* A send_pages call that returned Automatic.
C8_Witness ==
  /\ call.name = "send_pages"
  /\ Len(call.pages) = 1
  /\ result = "Automatic"

\* --------------------------------------------------------------------- C9

\* C9: show_loaded_page and load_next_page send only QueryState(addr) and
\* RequestOperation(addr, operation); a RequestOperation directly follows a
\* QueryState answered ReportState(addr, trigger), and such a reply is followed
\* by it; after a reply PageLoadInProgress or PageShowInProgress the next
\* message is again QueryState; and a reply ReportState(addr, target) returns
\* Ok with nothing further sent.
C9_SwitchPageProtocol ==
  InSwitchPage =>
    /\ \A i \in Sent :
         Msg(i) \in {QueryState(Address), RequestOperation(Address, SwOperation)}
    /\ \A i \in Sent :
         Msg(i).type = "RequestOperation" =>
           /\ i > 1
           /\ Msg(i - 1) = QueryState(Address)
           /\ Reply(i - 1) = ReportState(Address, SwTrigger)
    /\ \A i \in Sent :
         Msg(i) = QueryState(Address) =>
           /\ Reply(i) = ReportState(Address, SwTarget) => EndsAt(i, "Ok")
           /\ Reply(i) = ReportState(Address, SwTrigger) =>
                /\ Len(log) = i => pc = "switch_request"
                /\ Len(log) > i => Msg(i + 1) = RequestOperation(Address, SwOperation)
           /\ Reply(i) \in {ReportState(Address, "PageLoadInProgress"),
                            ReportState(Address, "PageShowInProgress")} =>
                /\ Len(log) = i => pc = "switch_query"
                /\ Len(log) > i => Msg(i + 1) = QueryState(Address)

\* A show_loaded_page call: PageLoaded, the request, PageShowInProgress, PageShown.
C9_Witness ==
  /\ call.name = "show_loaded_page"
  /\ Len(log) = 4
  /\ Reply(1) = ReportState(Address, "PageLoaded")
  /\ Reply(3) = ReportState(Address, "PageShowInProgress")
  /\ EndsAt(4, "Ok")

\* -------------------------------------------------------------------- C10

\* The replies to QueryState that switch_page has an arm for.
SwitchPageReplies ==
  {ReportState(Address, s) :
     s \in {"ShowingPages", SwTarget, SwTrigger, "PageLoadInProgress", "PageShowInProgress"}}

\* C10: in show_loaded_page and load_next_page a QueryState reply outside
\* SwitchPageReplies (no reply, a reply for another address, another state)
\* returns UnexpectedResponse with nothing sent after it, so no
\* RequestOperation answers it; and a RequestOperation answered by anything but
\* the matching AckOperation returns UnexpectedResponse as well.
C10_SwitchPageRejects ==
  InSwitchPage =>
    /\ \A i \in Sent :
         Msg(i) = QueryState(Address) /\ Reply(i) \notin SwitchPageReplies \cup {BusErr}
           => EndsAt(i, "UnexpectedResponse")
    /\ \A i \in Sent :
         Msg(i) = RequestOperation(Address, SwOperation)
           /\ Reply(i) \notin {AckOperation(Address, SwOperation), BusErr}
           => EndsAt(i, "UnexpectedResponse")

\* A load_next_page call answered with the trigger state of another address.
C10_Witness ==
  /\ call.name = "load_next_page"
  /\ Len(log) = 1
  /\ Reply(1).type = "ReportState"
  /\ Reply(1).addr # Address
  /\ Reply(1).state = "PageShown"
  /\ result = "UnexpectedResponse"

\* -------------------------------------------------------------------- C11

\* C11: in show_loaded_page and load_next_page a QueryState answered
\* ReportState(addr, ShowingPages) returns Ok with nothing sent after it; when
\* it is the first reply, that QueryState is the only exchange of the call, so
\* no RequestOperation is sent; the call leaves the Sign as it was and has put
\* nothing but that query on the bus, and a query leaves a virtual sign that
\* reports ShowingPages as it was.
C11_ShowingPagesIsNoOp ==
  InSwitchPage =>
    /\ \A i \in Sent :
         Msg(i) = QueryState(Address) /\ Reply(i) = ReportState(Address, "ShowingPages")
           => EndsAt(i, "Ok")
    /\ Len(log) >= 1 /\ Reply(1) = ReportState(Address, "ShowingPages") =>
         /\ log = <<[msg |-> QueryState(Address),
                     reply |-> ReportState(Address, "ShowingPages")]>>
         /\ \A i \in Sent : Msg(i).type # "RequestOperation"
         /\ result = "Ok"
         /\ signs = Handles
         /\ vsigns = pre
    /\ \A a \in Addresses :
         LET showing == [VirtualSign_new(a) EXCEPT !.state = "ShowingPages"]
         IN query_state(showing) = {Returns(showing, ReportState(a, "ShowingPages"))}

\* A load_next_page call whose only exchange was answered ShowingPages.
C11_Witness ==
  /\ call.name = "load_next_page"
  /\ Len(log) = 1
  /\ Reply(1) = ReportState(Address, "ShowingPages")
  /\ result = "Ok"
  /\ pc = "idle"

\* -------------------------------------------------------------------- C12

\* The states of the virtual sign from which the claim starts a switch_page
\* call: the trigger state and the in-progress state that leads to it.
SwStartStates ==
  IF call.name = "show_loaded_page" THEN {"PageLoaded", "PageLoadInProgress"}
  ELSE {"PageShown", "PageShowInProgress"}

InProgressReplies ==
  {i \in Sent : Reply(i) \in {ReportState(Address, "PageLoadInProgress"),
                              ReportState(Address, "PageShowInProgress")}}

\* C12: on a VirtualSignBus, show_loaded_page begun with the virtual sign in
\* PageLoaded or PageLoadInProgress, and load_next_page begun with it in
\* PageShown or PageShowInProgress, never makes more than five exchanges (two
\* polls to reach the trigger state, the request, two polls to the target), can
\* always take its next step until it has returned, and returns Ok with the
\* virtual sign in the target state (PageShown, PageLoaded); the polling ends
\* because an in-progress state is reported once and left by that very query.
C12_SwitchPageTerminates ==
  bus = "virtual" /\ InSwitchPage /\ Own(pre).state \in SwStartStates =>
    /\ Len(log) <= 5
    /\ pc # "idle" => ENABLED Steps
    /\ pc = "idle" => result = "Ok" /\ Own(vsigns).state = SwTarget
    /\ \A i \in InProgressReplies :
         /\ i < Len(log) => Reply(i + 1) # Reply(i)
         /\ i = Len(log) => Own(vsigns).state \in {"PageLoaded", "PageShown"}
    /\ \A i, j \in InProgressReplies : Reply(i) = Reply(j) => i = j

\* A show_loaded_page call begun in PageLoadInProgress that returned Ok after
\* five exchanges, two of them answered with an in-progress state.
C12_Witness ==
  /\ bus = "virtual"
  /\ call.name = "show_loaded_page"
  /\ Own(pre).state = "PageLoadInProgress"
  /\ Len(log) = 5
  /\ Cardinality(InProgressReplies) = 2
  /\ result = "Ok"
  /\ Own(vsigns).state = "PageShown"

\* A load_next_page call begun in PageShowInProgress that returned Ok.
C12_WitnessLoadNext ==
  /\ bus = "virtual"
  /\ call.name = "load_next_page"
  /\ Own(pre).state = "PageShowInProgress"
  /\ result = "Ok"
  /\ Own(vsigns).state = "PageLoaded"

\* -------------------------------------------------------------------- C13

SignCalls == {"configure", "send_pages", "show_loaded_page", "load_next_page", "shut_down"}

\* What the claim says stays as it was.
Observed(v) == <<v.state, v.pages, v.sign_type>>

\* C13: with two virtual signs on one VirtualSignBus driven by two Signs, at
\* every point of every Sign call the virtual sign of the other address has
\* the state, the page list and the sign_type it had when the call began; so
\* any sequence of calls through one Sign leaves them unchanged.
C13_OtherSignUntouched ==
  bus = "virtual" /\ call.name \in SignCalls =>
    \A k \in 1..Len(vsigns) :
      vsigns[k].address # Address => Observed(vsigns[k]) = Observed(pre[k])

\* The first Sign has configured its virtual sign anew and returned Ok while
\* the second Sign's virtual sign holds two loaded pages of the second type.
C13_Witness ==
  /\ bus = "virtual"
  /\ self = 1
  /\ call.name = "configure"
  /\ result = "Ok"
  /\ Len(log) > 5
  /\ vsigns[2].state = "PageLoaded"
  /\ Len(vsigns[2].pages) = 2
  /\ vsigns[2].sign_type = signs[2].sign_type

\* -------------------------------------------------------------------- C14

\* C14: in every Sign call, an exchange for which the bus returned an error is
\* the call's last, and the call returns SignError::Bus there; a call returns
\* Bus only in this way; so no message follows a bus error, no retry either,
\* and a bus error never comes out as UnexpectedResponse.
C14_BusErrorPropagates ==
  call.name \in SignCalls =>
    /\ \A i \in Sent : Reply(i) = BusErr => EndsAt(i, "Bus")
    /\ result = "Bus" => Len(log) >= 1 /\ Reply(Len(log)) = BusErr
    /\ result = "UnexpectedResponse" => Len(log) >= 1 /\ Reply(Len(log)) # BusErr

\* A send_pages call whose second attempt met a bus error on its post-transfer
\* QueryState.
C14_Witness ==
  /\ call.name = "send_pages"
  /\ Len(call.pages) = 1
  /\ Cardinality(FailureReplies) = 1
  /\ Len(log) \in PostTransferQueries
  /\ Reply(Len(log)) = BusErr
  /\ result = "Bus"
  /\ pc = "idle"

\* -------------------------------------------------------------------- C15

\* C15: shut_down makes one exchange, Goodbye(addr), and returns right after
\* it: Ok exactly when the bus returned no reply, UnexpectedResponse for any
\* reply. On a VirtualSignBus it returns Ok and the addressed virtual sign is
\* then Unconfigured with no pages and no sign_type, whatever it was before.
C15_ShutDown ==
  call.name = "shut_down" =>
    /\ Len(log) <= 1
    /\ Len(log) = 1 <=> pc = "idle"
    /\ pc = "idle" =>
         /\ Msg(1) = Goodbye(Address)
         /\ result = "Ok" <=> Reply(1) = None
         /\ Reply(1) \notin {None, BusErr} => result = "UnexpectedResponse"
         /\ bus = "virtual" =>
              /\ result = "Ok"
              /\ Own(vsigns).state = "Unconfigured"
              /\ Own(vsigns).pages = <<>>
              /\ Own(vsigns).sign_type = "None"

\* A shut_down that returned Ok on a virtual sign which was waiting for more
\* pixel data, configured and with a page stored or buffered.
C15_Witness ==
  /\ bus = "virtual"
  /\ call.name = "shut_down"
  /\ pc = "idle"
  /\ result = "Ok"
  /\ Own(pre).state \in {"PageLoaded", "PixelsInProgress"}
  /\ Own(pre).sign_type = signs[self].sign_type
  /\ Own(pre).pages # <<>> \/ Own(pre).pending_data # <<>>
  /\ Own(vsigns).state = "Unconfigured"

\* A shut_down that a reply to Goodbye failed.
C15_WitnessReply ==
  /\ bus = "scripted"
  /\ call.name = "shut_down"
  /\ pc = "idle"
  /\ Reply(1).type = "AckOperation"
  /\ result = "UnexpectedResponse"

\* ------------------------------------------------- observations on the codec

\* "0123456789ABCDEF" and "0123456789abcdef"
UpperHexDigits == <<48, 49, 50, 51, 52, 53, 54, 55, 56, 57, 65, 66, 67, 68, 69, 70>>
LowerHexDigits == <<48, 49, 50, 51, 52, 53, 54, 55, 56, 57, 97, 98, 99, 100, 101, 102>>

\* The two upper-case hex digits of each byte, in order.
HexString(bytes) ==
  [i \in 1..(2 * Len(bytes)) |->
     LET b == bytes[(i + 1) \div 2]
     IN IF i % 2 = 1 THEN UpperHexDigits[(b \div 16) + 1]
        ELSE UpperHexDigits[(b % 16) + 1]]

\* The arithmetic sum of the bytes lo..hi.
RECURSIVE SumBytes(_, _, _)
SumBytes(bytes, lo, hi) ==
  IF lo > hi THEN 0
  ELSE IF lo = hi THEN bytes[lo]
  ELSE SumBytes(bytes, lo, (lo + hi) \div 2) + SumBytes(bytes, (lo + hi) \div 2 + 1, hi)

\* (0 - sum of bytes) mod 256
Lrc(bytes) == (256 - (SumBytes(bytes, 1, Len(bytes)) % 256)) % 256

\* The bytes a frame's checksum covers: length, address high byte, address low
\* byte, message type, data.
Covered(f) ==
  <<Len(f.data), f.address \div 256, f.address % 256, f.message_type>> \o f.data

\* ':' then upper-case hex of the covered bytes and of the checksum.
Encoded(f) == <<58>> \o HexString(Append(Covered(f), Lrc(Covered(f))))

\* The places of the chain where a given conversion was applied.
Steps2(from, to) ==
  {i \in 1..(Len(chain) - 1) : chain[i].kind = from /\ chain[i + 1].kind \in to}

\* -------------------------------------------------------------------- C16

\* C16: to_bytes of a frame is ':' followed by the upper-case hex of length,
\* big-endian address, message type, data bytes and checksum;
\* to_bytes_with_newline is the same followed by CR LF; and from_bytes of
\* either gives back the frame.
C16_FrameRoundTrip ==
  \A i \in Steps2("frame", {"bytes"}) :
    /\ chain[i + 1].value \in {Encoded(chain[i].value), Encoded(chain[i].value) \o <<13, 10>>}
    /\ i + 2 <= Len(chain) /\ chain[i + 2].kind \in {"frame", "error"} =>
         chain[i + 2] = chain[i]

\* The frame with 255 bytes of data came back from to_bytes_with_newline and
\* from_bytes.
C16_Witness ==
  /\ Len(chain) = 3
  /\ chain[1].kind = "frame"
  /\ Len(chain[1].value.data) = 255
  /\ chain[1].value.address = 4660
  /\ chain[2].kind = "bytes"
  /\ Len(chain[2].value) = 523
  /\ chain[2].value[522] = 13
  /\ chain[3] = chain[1]

\* -------------------------------------------------------------------- C17

IsHex(c) == \E v \in 1..16 : c = UpperHexDigits[v] \/ c = LowerHexDigits[v]
HexValue(c) == (CHOOSE v \in 1..16 : c = UpperHexDigits[v] \/ c = LowerHexDigits[v]) - 1

\* The input up to the CR LF it may end with.
Line(w) ==
  IF Len(w) >= 2 /\ SubSeq(w, Len(w) - 1, Len(w)) = <<13, 10>>
  THEN SubSeq(w, 1, Len(w) - 2) ELSE w

\* ':' H{2} H{4} H{2} (H{2})* H{2} ("\r\n")?
FollowsGrammar(w) ==
  /\ Len(Line(w)) >= 11
  /\ Len(Line(w)) % 2 = 1
  /\ Line(w)[1] = 58
  /\ \A i \in 2..Len(Line(w)) : IsHex(Line(w)[i])

\* The k-th byte written on a line that follows the grammar.
ByteAt(w, k) == 16 * HexValue(Line(w)[2 * k]) + HexValue(Line(w)[2 * k + 1])
NumBytes(w) == (Len(Line(w)) - 1) \div 2

DeclaredLength(w) == ByteAt(w, 1)
DataPairs(w) == NumBytes(w) - 5
DeclaredChecksum(w) == ByteAt(w, NumBytes(w))
ComputedChecksum(w) == Lrc([k \in 1..(NumBytes(w) - 1) |-> ByteAt(w, k)])

\* C17: from_bytes of an input w returns, in this order: InvalidFrame
\* carrying w when w does not follow the grammar; else FrameDataMismatch with
\* expected the declared length and actual the number of data pairs when they
\* differ (whatever the checksum); else BadChecksum with expected the declared
\* and actual the computed checksum when they differ; and a frame, the one
\* written on the line, only when all three checks pass.
C17_FromBytesRejectsInOrder ==
  \A i \in Steps2("bytes", {"frame", "error"}) :
    LET w == chain[i].value
        r == chain[i + 1].value
    IN IF ~FollowsGrammar(w) THEN r = [error |-> "InvalidFrame", data |-> w]
       ELSE IF DeclaredLength(w) # DataPairs(w)
       THEN r = [error |-> "FrameDataMismatch", data |-> w,
                 expected |-> DeclaredLength(w), actual |-> DataPairs(w)]
       ELSE IF DeclaredChecksum(w) # ComputedChecksum(w)
       THEN r = [error |-> "BadChecksum", data |-> w,
                 expected |-> DeclaredChecksum(w), actual |-> ComputedChecksum(w)]
       ELSE /\ chain[i + 1].kind = "frame"
            /\ r = [address |-> 256 * ByteAt(w, 2) + ByteAt(w, 3),
                    message_type |-> ByteAt(w, 4),
                    data |-> [k \in 1..DataPairs(w) |-> ByteAt(w, 4 + k)]]

\* An input wrong in both length and checksum was reported as
\* FrameDataMismatch.
C17_Witness ==
  /\ Len(chain) = 4
  /\ chain[3].kind = "bytes"
  /\ FollowsGrammar(chain[3].value)
  /\ DeclaredLength(chain[3].value) # DataPairs(chain[3].value)
  /\ DeclaredChecksum(chain[3].value) # ComputedChecksum(chain[3].value)
  /\ chain[4].kind = "error"
  /\ chain[4].value.error = "FrameDataMismatch"

\* An input wrong in its checksum only was reported as BadChecksum.
C17_WitnessChecksum ==
  /\ Len(chain) = 4
  /\ chain[4].kind = "error"
  /\ chain[4].value.error = "BadChecksum"

\* An input in lower case was read as the frame that was written.
C17_WitnessLowerCase ==
  /\ Len(chain) = 4
  /\ chain[3].kind = "bytes"
  /\ chain[3].value # chain[2].value
  /\ chain[4] = chain[1]

\* -------------------------------------------------------------------- C18

\* C18: a frame converted to a message and that message converted to a frame
\* is the frame again, address, message type and data; and when the message
\* is Unknown, it carries that very frame.
C18_FrameMessageFrame ==
  \A i \in Steps2("frame", {"message"}) :
    /\ chain[i + 1].value.type = "Unknown" => chain[i + 1].value.frame = chain[i].value
    /\ i + 2 <= Len(chain) /\ chain[i + 2].kind = "frame" =>
         /\ chain[i + 2].value.address = chain[i].value.address
         /\ chain[i + 2].value.message_type = chain[i].value.message_type
         /\ chain[i + 2].value.data = chain[i].value.data
         /\ chain[i + 2] = chain[i]

\* A Goodbye frame went to Message::Goodbye and back.
C18_Witness ==
  /\ Len(chain) = 3
  /\ chain[1] = Value("frame", [address |-> 4660, message_type |-> 2, data |-> <<85>>])
  /\ chain[2] = Value("message", [type |-> "Goodbye", addr |-> 4660])
  /\ chain[3] = chain[1]

\* A frame of no known pattern went through Message::Unknown and back.
C18_WitnessUnknown ==
  /\ Len(chain) = 3
  /\ chain[1].kind = "frame"
  /\ chain[1].value.message_type = 255
  /\ chain[2].kind = "message"
  /\ chain[2].value.type = "Unknown"
  /\ chain[3] = chain[1]

\* -------------------------------------------------------------------- C19

\* C19 as claimed: every message converted to a frame and that frame
\* converted to a message is the message again.
C19_MessageFrameMessage ==
  \A i \in Steps2("message", {"frame"}) :
    i + 2 <= Len(chain) /\ chain[i + 2].kind = "message" => chain[i + 2] = chain[i]

\* The messages a frame converts to: not a SendData of fewer than two data
\* bytes, and not an Unknown around a frame that has a variant of its own.
FromSomeFrame(m) ==
  /\ m.type = "SendData" => Len(m.data) >= 2
  /\ m.type = "Unknown" =>
       LET f == m.frame
       IN /\ Len(f.data) = 0 => f.message_type # 1
          /\ Len(f.data) >= 2 => f.message_type # 0
          /\ Len(f.data) = 1 =>
               /\ f.message_type = 2 => f.data[1] \notin {255, 0, 85}
               /\ f.message_type = 4 =>
                    f.data[1] \notin {StateByte(s) : s \in State \ {"ShowingPages"}}
               /\ f.message_type = 3 => f.data[1] \notin {RequestByte(op) : op \in Operation}
               /\ f.message_type = 5 => f.data[1] \notin {AckByte(op) : op \in Operation}
               /\ f.message_type = 6 => f.data[1] # 0

\* C19 as amended: a message other than a SendData of fewer than two data
\* bytes and an Unknown around a frame of a known pattern, converted to a
\* frame and back, is the message again; every other message comes back as a
\* different one, which is what its frame converts to.
C19_RoundTripOfFrameMessages ==
  \A i \in Steps2("message", {"frame"}) :
    i + 2 <= Len(chain) /\ chain[i + 2].kind = "message" =>
      /\ FromSomeFrame(chain[i].value) <=> chain[i + 2] = chain[i]
      /\ FromSomeFrame(chain[i + 2].value)

\* A SendData of two bytes came back unchanged.
C19_Witness ==
  /\ Len(chain) = 3
  /\ chain[1].kind = "message"
  /\ chain[1].value.type = "SendData"
  /\ Len(chain[1].value.data) = 2
  /\ chain[2].kind = "frame"
  /\ chain[3] = chain[1]

\* An Unknown around the frame of a ReportState came back as that ReportState.
C19_WitnessUnknownOfKnown ==
  /\ Len(chain) = 3
  /\ chain[1] = Value("message", Unknown(Frame_new(3, 4, <<7>>)))
  /\ chain[3] = Value("message", ReportState(3, "ConfigReceived"))

\* A SendData of one byte came back as Unknown.
C19_WitnessShortData ==
  /\ Len(chain) = 3
  /\ chain[1].kind = "message"
  /\ chain[1].value.type = "SendData"
  /\ Len(chain[1].value.data) = 1
  /\ chain[3].kind = "message"
  /\ chain[3].value.type = "Unknown"

\* -------------------------------------------------------------------- C20

\* The byte strings the last conversion gave: the bytes written or read, or
\* of a frame its data and the bytes its checksum covers.
ByteStrings ==
  IF Last.kind = "bytes" THEN {Last.value}
  ELSE IF Last.kind = "frame" THEN {Last.value.data, payload(Last.value)}
  ELSE {}

\* C20: the checksum of a frame is (0 - sum) mod 256 of its length, address
\* high byte, address low byte, message type and data, and that is the byte
\* written last on the line; and for every byte string b, the checksum of b
\* followed by checksum(b) is 0.
C20_Checksum ==
  /\ Last.kind = "frame" =>
       /\ payload(Last.value) = Covered(Last.value)
       /\ checksum(payload(Last.value)) = Lrc(Covered(Last.value))
  /\ Len(chain) - 1 \in Steps2("frame", {"bytes"}) =>
       LET f == chain[Len(chain) - 1].value
           n == 1 + 2 * Len(Covered(f))
       IN SubSeq(Last.value, n + 1, n + 2) = HexString(<<Lrc(Covered(f))>>)
  /\ \A b \in ByteStrings :
       LET c == checksum(b)
       IN /\ c = Lrc(b)
          /\ checksum(Append(b, c)) = 0

\* The frame of 255 data bytes was written out, with a checksum that is not 0.
C20_Witness ==
  /\ Len(chain) >= 2
  /\ chain[1] = Value("frame", Frame_new(4660, 0, LongData))
  /\ chain[2].kind = "bytes"
  /\ checksum(payload(chain[1].value)) # 0

\* -------------------------------------------------------------------- C21

\* The least multiple of 16 that is at least n, and the least c with 8c >= h.
RoundUp16(n) == CHOOSE m \in {16 * k : k \in 0..n} : m >= n /\ m < n + 16
CeilDiv8(h) == CHOOSE c \in 0..h : 8 * c >= h /\ 8 * c < h + 8

\* Bit k of byte b.
Bit(b, k) == (b \div (2 ^ k)) % 2

\* Where pixel (x, y) of a page of height h is kept: the index of its byte in
\* the page's bytes (from 1) and its bit in that byte.
PixelByte(h, x, y) == 4 + x * CeilDiv8(h) + (y \div 8) + 1
PixelBit(y) == y % 8

\* C21: Page::new(id, w, h) is round_up_16(4 + w * ceil(h / 8)) bytes long,
\* starts with id, 0x10, 0x00, 0x00, has every pixel off and 0xFF in every
\* padding byte; and after set_pixel(x, y, v) inside the page get_pixel(x, y)
\* is v while every other pixel, the header, the padding and the length are
\* as they were.
C21_PageLayout ==
  /\ Len(drawing) >= 1 =>
       LET p == drawing[1].page
           data == 4 + p.width * CeilDiv8(p.height)
       IN /\ Len(p.bytes) = RoundUp16(data)
          /\ SubSeq(p.bytes, 1, 4) = <<drawing[1].id, 16, 0, 0>>
          /\ \A i \in 5..data : p.bytes[i] = 0
          /\ \A i \in (data + 1)..Len(p.bytes) : p.bytes[i] = 255
          /\ \A x \in 0..(p.width - 1), y \in 0..(p.height - 1) : ~get_pixel(p, x, y)
  /\ \A i \in 2..Len(drawing) :
       LET d == drawing[i]
           q == d.page
           p == drawing[i - 1].page
           at == PixelByte(p.height, d.x, d.y)
       IN /\ get_pixel(q, d.x, d.y) = d.value
          /\ Bit(q.bytes[at], PixelBit(d.y)) = (IF d.value THEN 1 ELSE 0)
          /\ \A x \in 0..(p.width - 1), y \in 0..(p.height - 1) :
               <<x, y>> # <<d.x, d.y>> => get_pixel(q, x, y) = get_pixel(p, x, y)
          /\ q.width = p.width /\ q.height = p.height
          /\ Len(q.bytes) = Len(p.bytes)
          /\ \A k \in 1..Len(p.bytes) : k # at => q.bytes[k] = p.bytes[k]
          /\ \A b \in 0..7 : b # PixelBit(d.y) => Bit(q.bytes[at], b) = Bit(p.bytes[at], b)

\* On a page of 2 x 9 a pixel of the second byte of a column was set, and set
\* again.
C21_Witness ==
  /\ Len(drawing) = 3
  /\ drawing[1].page.width = 2 /\ drawing[1].page.height = 9
  /\ Len(drawing[1].page.bytes) = 16
  /\ drawing[2].x = 1 /\ drawing[2].y = 8 /\ drawing[2].value
  /\ drawing[3].x = 1 /\ drawing[3].y = 8 /\ drawing[3].value
  /\ get_pixel(drawing[3].page, 1, 8)

\* A page whose data fills 16 bytes exactly has no padding.
C21_WitnessNoPadding ==
  /\ Len(drawing) = 2
  /\ drawing[1].page.width = 12 /\ drawing[1].page.height = 1
  /\ Len(drawing[1].page.bytes) = 16
  /\ drawing[2].x = 11 /\ drawing[2].value
  /\ drawing[2].page.bytes[16] = 1

\* ------------------------------------- observations on a virtual sign alone

\* The sign after the last message and before it, and whether
\* process_message returned for that message.
Now == vsigns[1]
Was == pre[1]
Returned == bus = "sign" /\ Len(log) = 1 /\ result = "Raw"
Handled(m) == Returned /\ Msg(1) = m

\* The fields of a sign other than its state.
Rest(s) == [s EXCEPT !.state = "Unconfigured"]

\* -------------------------------------------------------------------- C22

Queries(a) == {Hello(a), QueryState(a)}

\* What a sign answers to a query and to the query after it.
TwoQueries(s) ==
  UNION {UNION {{<<o1.reply, o2.reply>> :
                   o2 \in UNION {VirtualSign_process_message(o1.sign, q2)
                                   : q2 \in Queries(s.address)}}
                  : o1 \in VirtualSign_process_message(s, q1)}
           : q1 \in Queries(s.address)}

\* C22: Hello(a) and QueryState(a) for the sign's address are answered with
\* ReportState(a, s), s the state before the message; PageLoadInProgress then
\* becomes PageLoaded, PageShowInProgress becomes PageShown, any other state
\* stays, and no other field changes. So after an acked ShowLoadedPage
\* (LoadNextPage) the first query reports PageShowInProgress
\* (PageLoadInProgress) and the one after it PageShown (PageLoaded).
C22_QueryReportsAndSettles ==
  /\ Returned /\ Msg(1) \in Queries(Was.address) =>
       /\ Reply(1) = ReportState(Was.address, Was.state)
       /\ Was.state = "PageLoadInProgress" => Now.state = "PageLoaded"
       /\ Was.state = "PageShowInProgress" => Now.state = "PageShown"
       /\ Was.state \notin {"PageLoadInProgress", "PageShowInProgress"} =>
            Now.state = Was.state
       /\ Rest(Now) = Rest(Was)
  /\ Returned /\ Reply(1) = AckOperation(Was.address, "ShowLoadedPage") =>
       TwoQueries(Now) = {<<ReportState(Now.address, "PageShowInProgress"),
                            ReportState(Now.address, "PageShown")>>}
  /\ Returned /\ Reply(1) = AckOperation(Was.address, "LoadNextPage") =>
       TwoQueries(Now) = {<<ReportState(Now.address, "PageLoadInProgress"),
                            ReportState(Now.address, "PageLoaded")>>}

\* The query after an acked ShowLoadedPage was answered PageShowInProgress
\* and left the sign, with a page stored, in PageShown.
C22_Witness ==
  /\ Handled(QueryState(3))
  /\ Reply(1) = ReportState(3, "PageShowInProgress")
  /\ Now.state = "PageShown"
  /\ Len(Now.pages) = 1

\* LoadNextPage was acked.
C22_WitnessLoadNext ==
  /\ Handled(RequestOperation(3, "LoadNextPage"))
  /\ Reply(1) = AckOperation(3, "LoadNextPage")

\* -------------------------------------------------------------------- C23

\* The states in which each of the four operations is permitted, and the
\* state it leads to.
PermittedIn(op) ==
  CASE op = "ReceiveConfig" -> {"Unconfigured", "ConfigFailed"}
    [] op = "ReceivePixels" -> {"ConfigReceived", "PixelsFailed", "PageLoaded",
                                "PageLoadInProgress", "PageShown", "PageShowInProgress"}
    [] op = "ShowLoadedPage" -> {"PageLoaded"}
    [] op = "LoadNextPage" -> {"PageShown"}

LeadsTo(op) ==
  CASE op = "ReceiveConfig" -> "ConfigInProgress"
    [] op = "ReceivePixels" -> "PixelsInProgress"
    [] op = "ShowLoadedPage" -> "PageShowInProgress"
    [] op = "LoadNextPage" -> "PageLoadInProgress"

C23_WitnessPixelsComplete ==
  /\ Handled(PixelsComplete(3))
  /\ Was.state = "PixelsReceived"
  /\ Now.state = "PageLoaded"

\* ReceiveConfig was acked again after ConfigFailed.
C23_WitnessRetry ==
  /\ Handled(RequestOperation(3, "ReceiveConfig"))
  /\ Was.state = "ConfigFailed"
  /\ Now.state = "ConfigInProgress"

\* -------------------------------------------------------------------- C24

\* The messages a sign s does not act on: addressed to another sign, of a
\* kind no sign handles, or asking for an operation its state does not permit.
NotActedOn(s) ==
  {m \in SignMessages :
     \/ m.type \in {"Hello", "QueryState", "RequestOperation", "PixelsComplete", "Goodbye"}
          /\ m.addr # s.address
     \/ m.type \in {"ReportState", "AckOperation", "Unknown"}
     \/ /\ m.type = "RequestOperation"
        /\ m.addr = s.address
        /\ \/ m.op \in {"ReceiveConfig", "ReceivePixels", "ShowLoadedPage", "LoadNextPage"}
                /\ s.state \notin PermittedIn(m.op)
           \/ m.op = "FinishReset" /\ s.state # "ReadyToReset"}

\* C24: a message the sign does not act on - a Hello, QueryState,
\* RequestOperation, PixelsComplete or Goodbye for another address, a
\* ReportState, AckOperation or Unknown, or a RequestOperation that the
\* current state does not permit - gets no reply and leaves state, pages,
\* pending data, chunk count, width, height and sign_type as they were.
C24_IgnoredMessages ==
  Returned /\ Msg(1) \in NotActedOn(Was) =>
    /\ Reply(1) = None
    /\ Now = Was
    /\ Now.state = Was.state /\ Now.pages = Was.pages
    /\ Now.pending_data = Was.pending_data /\ Now.data_chunks = Was.data_chunks
    /\ Now.width = Was.width /\ Now.height = Was.height
    /\ Now.sign_type = Was.sign_type

\* A Goodbye for another address reached a sign that was collecting pixels.
C24_Witness ==
  /\ Handled(Goodbye(6))
  /\ Was.state = "PixelsInProgress"
  /\ Len(Was.pending_data) = 32
  /\ Was.data_chunks = 2
  /\ Now = Was

\* FinishReset reached a sign holding a page outside ReadyToReset.
C24_WitnessFinishReset ==
  /\ Handled(RequestOperation(3, "FinishReset"))
  /\ Was.state = "PageLoaded"
  /\ Len(Now.pages) = 1

\* An Unknown message reached a configured sign.
C24_WitnessUnknown ==
  /\ Returned
  /\ Msg(1).type = "Unknown"
  /\ Was.state = "ConfigReceived"
  /\ Was.sign_type = "HorizonDash40x12"

\* -------------------------------------------------------------------- C25

\* The last message was a DataChunksSent, whether or not the call returned.
GotDataChunksSent == bus = "sign" /\ Len(log) = 1 /\ Msg(1).type = "DataChunksSent"

\* The state a DataChunksSent(count) leaves a sign that was s in.
AfterCount(s, count) ==
  IF s.state = "ConfigInProgress"
  THEN (IF count = s.data_chunks THEN "ConfigReceived" ELSE "ConfigFailed")
  ELSE IF s.state = "PixelsInProgress"
  THEN (IF count = s.data_chunks THEN "PixelsReceived" ELSE "PixelsFailed")
  ELSE s.state

\* The pages after the buffered bytes of s were flushed: one page more when
\* there were bytes and both dimensions are non-zero.
PagesFlushed(s) ==
  IF s.pending_data # <<>> /\ s.width > 0 /\ s.height > 0
  THEN Append(s.pages, [width |-> s.width, height |-> s.height, bytes |-> s.pending_data])
  ELSE s.pages

\* C25: DataChunksSent(count) moves ConfigInProgress to ConfigReceived when
\* count is the number of chunks accepted and to ConfigFailed when it is not,
\* PixelsInProgress likewise to PixelsReceived or PixelsFailed, and leaves
\* every other state; in all cases the buffered pixel data is flushed, the
\* chunk counter is 0 afterwards and there is no reply.
C25_DataChunksSent ==
  GotDataChunksSent =>
    /\ result = "Raw"
    /\ Reply(1) = None
    /\ Now.state = AfterCount(Was, Msg(1).count)
    /\ Now.pending_data = <<>>
    /\ Now.pages = PagesFlushed(Was)
    /\ Now.data_chunks = 0

\* Every DataChunksSent call that returns does what C25 says, and changes no
\* field besides state, pages, pending data and chunk counter.
DataChunksSentUnlessPanic ==
  GotDataChunksSent /\ result = "Raw" =>
    /\ Reply(1) = None
    /\ Now = [Was EXCEPT !.state = AfterCount(Was, Msg(1).count),
                         !.pending_data = <<>>,
                         !.pages = PagesFlushed(Was),
                         !.data_chunks = 0]

\* A DataChunksSent call panics only in the flush: bytes are buffered, both
\* dimensions are non-zero and the bytes are not one page long.
DataChunksSentPanicsInFlush ==
  GotDataChunksSent =>
    (result = "Panic" <=>
       /\ Was.pending_data # <<>>
       /\ Was.width > 0 /\ Was.height > 0
       /\ Len(Was.pending_data) # RoundUp16(4 + Was.width * CeilDiv8(Was.height)))

\* DataChunksSent(3) took a sign of 30 x 7 from PixelsInProgress to
\* PixelsReceived and made a page of the 48 bytes buffered.
DataChunksSentStoresPage ==
  /\ GotDataChunksSent /\ result = "Raw"
  /\ Msg(1).count = 3
  /\ Was.state = "PixelsInProgress" /\ Was.sign_type = "Max3000Dash30x7"
  /\ Now.state = "PixelsReceived"
  /\ Len(Now.pages) = 1 /\ Len(Now.pages[1].bytes) = 48

\* -------------------------------------------------------------------- C26

\* The last message was a SendData of 16 bytes at offset 0 to a sign in
\* ConfigInProgress, whether or not the call returned.
GotConfigChunk ==
  /\ bus = "sign" /\ Len(log) = 1
  /\ Msg(1).type = "SendData" /\ Msg(1).offset = 0 /\ Len(Msg(1).data) = 16
  /\ Was.state = "ConfigInProgress"

\* C26: a sign in ConfigInProgress that receives SendData(offset 0, 16
\* bytes) with first byte 0x04 sets height = data[4] and width = data[5] +
\* data[6] + data[7] + data[8], the arithmetic sum; with first byte 0x08 it
\* sets height = data[5] and width = data[7]; in both cases the chunk counter
\* grows by one and there is no reply. (data[k] of the code is data[k + 1]
\* here.)
C26_ConfigDimensions ==
  GotConfigChunk /\ Msg(1).data[1] \in {4, 8} =>
    LET data == Msg(1).data
    IN /\ result = "Raw"
       /\ Reply(1) = None
       /\ Now.data_chunks = Was.data_chunks + 1
       /\ data[1] = 4 =>
            /\ Now.height = data[5]
            /\ Now.width = data[6] + data[7] + data[8] + data[9]
       /\ data[1] = 8 =>
            /\ Now.height = data[6]
            /\ Now.width = data[8]

\* C26 holds whenever the four width bytes add up to less than 256.
ConfigDimensionsBelow256 ==
  GotConfigChunk /\ Msg(1).data[1] \in {4, 8} =>
    LET data == Msg(1).data
    IN \/ (data[1] = 4 /\ data[6] + data[7] + data[8] + data[9] >= 256)
       \/ /\ result = "Raw"
          /\ Reply(1) = None
          /\ Now.data_chunks = Was.data_chunks + 1
          /\ Now.state = Was.state /\ Now.pages = Was.pages
          /\ Now.pending_data = Was.pending_data
          /\ data[1] = 4 =>
               /\ Now.height = data[5]
               /\ Now.width = data[6] + data[7] + data[8] + data[9]
          /\ data[1] = 8 =>
               /\ Now.height = data[6]
               /\ Now.width = data[8]

\* A block of the Horizon family set 40 x 12 on a sign that had already
\* counted a chunk.
ConfigDimensionsHorizon ==
  /\ GotConfigChunk /\ result = "Raw"
  /\ Msg(1).data[1] = 8
  /\ Was.data_chunks = 1 /\ Now.data_chunks = 2
  /\ Now.width = 40 /\ Now.height = 12

\* The block whose width bytes add up to 256 left the width at 0.
ConfigWidthWrapped ==
  /\ GotConfigChunk /\ result = "Raw"
  /\ Msg(1).data[6] + Msg(1).data[7] = 256
  /\ Now.width = 0 /\ Now.height = 7

\* The same block made the call panic.
ConfigWidthPanicked ==
  /\ GotConfigChunk /\ result = "Panic"
  /\ Msg(1).data[6] + Msg(1).data[7] = 256

\* -------------------------------------------------------------------- C27

\* A 16-byte configuration chunk was accepted: the call returned and the
\* first byte named a family.
AcceptedConfigChunk ==
  GotConfigChunk /\ result = "Raw" /\ Msg(1).data[1] \in {4, 8}

\* C27 as claimed: an accepted 16-byte configuration chunk records
\* sign_type = Some(t) only if the 16 bytes are the configuration block of
\* the known type t, and None otherwise; the chunk is counted.
C27_SignTypeOfWholeBlock ==
  AcceptedConfigChunk =>
    /\ \A t \in SignType : Now.sign_type = t => Msg(1).data = to_bytes(t)
    /\ Now.sign_type \in SignType \cup {"None"}
    /\ Now.data_chunks = Was.data_chunks + 1

\* The known types whose configuration block starts with the two bytes b.
TypesStarting(b) == {t \in SignType : SubSeq(to_bytes(t), 1, 2) = b}

\* C27 as amended: an accepted 16-byte configuration chunk records
\* sign_type = Some(t) exactly when its first two bytes are the first two
\* bytes of the configuration block of the known type t, whatever the other
\* 14 bytes are, and None when no known type starts with them; the chunk is
\* counted, and ConfigReceived is reached with sign_type None as well.
C27_SignTypeOfFirstTwoBytes ==
  AcceptedConfigChunk =>
    LET known == TypesStarting(SubSeq(Msg(1).data, 1, 2))
    IN /\ Cardinality(known) <= 1
       /\ known # {} => Now.sign_type \in known
       /\ known = {} => Now.sign_type = "None"
       /\ Now.data_chunks = Was.data_chunks + 1

\* A block with the first two bytes of Max3000Dash30x7 and a width of 12 was
\* recorded as Max3000Dash30x7.
C27_Witness ==
  /\ AcceptedConfigChunk
  /\ Msg(1).data # to_bytes("Max3000Dash30x7")
  /\ Now.sign_type = "Max3000Dash30x7"
  /\ Now.width = 12

\* A sign whose configuration matched no known type is in ConfigReceived.
C27_WitnessUnknownReceived ==
  /\ Handled(DataChunksSent(1))
  /\ Now.state = "ConfigReceived"
  /\ Now.sign_type = "None"
  /\ Now.width = 12 /\ Now.height = 7

\* -------------------------------------------------------------------- C28

\* The last message was a SendData to a sign in ConfigInProgress that is not
\* a configuration block: its first byte is neither 0x04 nor 0x08, its offset
\* is not 0, or it is not 16 bytes long.
GotBadConfigChunk ==
  /\ bus = "sign" /\ Len(log) = 1
  /\ Msg(1).type = "SendData"
  /\ Was.state = "ConfigInProgress"
  /\ \/ Msg(1).data[1] \notin {4, 8}
     \/ Msg(1).offset # 0
     \/ Len(Msg(1).data) # 16

\* C28: such a SendData is ignored: there is no reply and width, height,
\* sign_type and the chunk counter (and every other field) are as before. So
\* when no chunk has been counted a following DataChunksSent(1) moves the
\* sign to ConfigFailed, and in general the count is judged as if the
\* SendData had not been sent.
C28_BadConfigChunkIgnored ==
  GotBadConfigChunk =>
    /\ result = "Raw"
    /\ Reply(1) = None
    /\ Now.width = Was.width /\ Now.height = Was.height
    /\ Now.sign_type = Was.sign_type
    /\ Now.data_chunks = Was.data_chunks
    /\ Now = Was
    /\ \A o \in VirtualSign_process_message(Now, DataChunksSent(1)) :
         /\ ~o.panic
         /\ Was.data_chunks = 0 => o.sign.state = "ConfigFailed"
         /\ o \in VirtualSign_process_message(Was, DataChunksSent(1))

\* The block of the test invalid_config (first byte 0x0F) reached a sign that
\* had just acked ReceiveConfig.
C28_Witness ==
  /\ GotBadConfigChunk /\ result = "Raw"
  /\ Msg(1).offset = 0 /\ Len(Msg(1).data) = 16 /\ Msg(1).data[1] = 15
  /\ Now.data_chunks = 0 /\ Now.width = 0 /\ Now.height = 0
  /\ Now.sign_type = "None"

\* A known block at offset 16 reached a sign in ConfigInProgress.
C28_WitnessOffset ==
  /\ GotBadConfigChunk /\ result = "Raw"
  /\ Msg(1) = SendData(16, to_bytes("Max3000Dash30x7"))

\* A block of 15 bytes reached a sign in ConfigInProgress.
C28_WitnessShort ==
  /\ GotBadConfigChunk /\ result = "Raw"
  /\ Len(Msg(1).data) = 15 /\ Msg(1).data[1] = 4

\* DataChunksSent(1) with no chunk counted gave ConfigFailed.
C28_WitnessFailed ==
  /\ Handled(DataChunksSent(1))
  /\ Was.state = "ConfigInProgress" /\ Was.data_chunks = 0
  /\ Now.state = "ConfigFailed"

\* -------------------------------------------------------------------- C29

\* A sign with every field cleared.
Cleared(s) ==
  /\ s.state = "Unconfigured"
  /\ s.pages = <<>> /\ s.pending_data = <<>> /\ s.data_chunks = 0
  /\ s.width = 0 /\ s.height = 0 /\ s.sign_type = "None"

\* C29: RequestOperation(StartReset) for the sign's address is acked in every
\* state and moves the sign to ReadyToReset, no other field changed;
\* RequestOperation(FinishReset) is acked only in ReadyToReset and then
\* leaves the sign Unconfigured with all fields cleared; in any other state
\* it gets no reply and changes nothing.
C29_StartAndFinishReset ==
  /\ Handled(RequestOperation(Was.address, "StartReset")) =>
       /\ Reply(1) = AckOperation(Was.address, "StartReset")
       /\ Now = [Was EXCEPT !.state = "ReadyToReset"]
  /\ Handled(RequestOperation(Was.address, "FinishReset")) =>
       IF Was.state = "ReadyToReset"
       THEN /\ Reply(1) = AckOperation(Was.address, "FinishReset")
            /\ Cleared(Now)
            /\ Now.address = Was.address
       ELSE /\ Reply(1) = None
            /\ Now = Was

\* StartReset was acked by a sign collecting pixels, which kept what it had
\* buffered and counted.
C29_Witness ==
  /\ Handled(RequestOperation(3, "StartReset"))
  /\ Reply(1) = AckOperation(3, "StartReset")
  /\ Was.state = "PixelsInProgress"
  /\ Now.state = "ReadyToReset"
  /\ Len(Now.pending_data) = 32 /\ Now.data_chunks = 2
  /\ Now.sign_type = "Max3000Dash30x7"

\* FinishReset was acked by a sign in ReadyToReset that held a page.
C29_WitnessFinish ==
  /\ Handled(RequestOperation(3, "FinishReset"))
  /\ Reply(1) = AckOperation(3, "FinishReset")
  /\ Len(Was.pages) = 1 /\ Was.width = 12
  /\ Now.state = "Unconfigured"

\* -------------------------------------------------------------------- C30

\* C30: after an acked FinishReset, and after a Goodbye for its own address,
\* which is accepted in every state and never answered, the sign equals
\* VirtualSign::new of its address: Unconfigured, no pages, no buffered pixel
\* data, chunk counter 0, width 0, height 0, sign_type None.
C30_ResetGivesNewSign ==
  /\ Returned /\ Reply(1) = AckOperation(Was.address, "FinishReset") =>
       Now = VirtualSign_new(Was.address)
  /\ Handled(Goodbye(Was.address)) =>
       /\ Reply(1) = None
       /\ Now = VirtualSign_new(Was.address)
       /\ Now = [address |-> Was.address, state |-> "Unconfigured", pages |-> <<>>,
                 pending_data |-> <<>>, data_chunks |-> 0, width |-> 0, height |-> 0,
                 sign_type |-> "None"]

\* Goodbye reached a sign of a known type that was showing a page.
C30_Witness ==
  /\ Handled(Goodbye(3))
  /\ Was.state = "PageShown"
  /\ Len(Was.pages) = 1
  /\ Was.sign_type = "Max3000Dash30x7" /\ Was.width = 30 /\ Was.height = 7
  /\ Now = VirtualSign_new(3)

\* Goodbye reached a sign with buffered pixel data and a chunk count.
C30_WitnessPending ==
  /\ Handled(Goodbye(3))
  /\ Was.state = "PixelsInProgress"
  /\ Was.pending_data # <<>> /\ Was.data_chunks = 3
  /\ Now = VirtualSign_new(3)

\* FinishReset was acked by a sign that had kept buffered data through
\* StartReset.
C30_WitnessFinishReset ==
  /\ Handled(RequestOperation(3, "FinishReset"))
  /\ Reply(1) = AckOperation(3, "FinishReset")
  /\ Was.pending_data # <<>> /\ Was.height = 12
  /\ Now = VirtualSign_new(3)

\* ----------------------------------- observations on a virtual bus alone

\* The last step was a call of VirtualSignBus::process_message with m.
Offered(m) == bus = "bus" /\ Len(log) = 1 /\ Msg(1) = m
OfferedAny == bus = "bus" /\ Len(log) = 1

\* The k-th sign processed the message of the call and returned None.
ReturnedNone(k) ==
  \E o \in VirtualSign_process_message(pre[k], Msg(1)) :
    ~o.panic /\ o.reply = None /\ o.sign = vsigns[k]

\* The k-th sign processed the message of the call and returned Some(reply).
ReturnedSome(k, reply) ==
  \E o \in VirtualSign_process_message(pre[k], Msg(1)) :
    ~o.panic /\ o.reply # None /\ o.reply = reply /\ o.sign = vsigns[k]

\* The k-th sign processed the message of the call and panicked in it.
PanickedIn(k) ==
  \E o \in VirtualSign_process_message(pre[k], Msg(1)) :
    o.panic /\ o.sign = vsigns[k]

\* The signs that differ from what they were before the call.
Changed == {k \in 1..Len(vsigns) : vsigns[k] # pre[k]}

\* -------------------------------------------------------------------- C31

\* C31: VirtualSignBus::process_message offers the message to its signs in
\* construction order and returns the reply of the first sign that produces
\* one; the signs after that one do not process the message; if every sign
\* returns None it returns Ok(None); it never returns Err. (A sign that
\* panics returns nothing: the call then ends there, with no value.)
C31_FirstReplyWins ==
  OfferedAny =>
    /\ Len(vsigns) = Len(pre)
    /\ Reply(1) # BusErr
    /\ result = "Raw" /\ Reply(1) # None =>
         \E k \in 1..Len(pre) :
           /\ \A j \in 1..(k - 1) : ReturnedNone(j)
           /\ ReturnedSome(k, Reply(1))
           /\ \A j \in (k + 1)..Len(pre) : vsigns[j] = pre[j]
    /\ result = "Raw" /\ Reply(1) = None => \A k \in 1..Len(pre) : ReturnedNone(k)
    /\ (\A k \in 1..Len(pre) :
          \A o \in VirtualSign_process_message(pre[k], Msg(1)) :
            ~o.panic /\ o.reply = None) =>
         result = "Raw" /\ Reply(1) = None
    /\ result = "Panic" =>
         \E k \in 1..Len(pre) :
           /\ \A j \in 1..(k - 1) : ReturnedNone(j)
           /\ PanickedIn(k)
           /\ \A j \in (k + 1)..Len(pre) : vsigns[j] = pre[j]

\* The first of two signs of address 3 acked ReceiveConfig; the second one,
\* in the same state, would have acked it too and was not touched.
C31_Witness ==
  /\ Offered(RequestOperation(3, "ReceiveConfig"))
  /\ Reply(1) = AckOperation(3, "ReceiveConfig")
  /\ pre[1].state = "Unconfigured" /\ pre[3].state = "Unconfigured"
  /\ vsigns[1].state = "ConfigInProgress"
  /\ vsigns[3] = pre[3]

\* The first sign of address 3 returned None and the second one replied.
C31_WitnessSecond ==
  /\ Offered(RequestOperation(3, "ReceiveConfig"))
  /\ Reply(1) = AckOperation(3, "ReceiveConfig")
  /\ pre[1].state = "ConfigInProgress" /\ vsigns[1] = pre[1]
  /\ pre[3].state = "Unconfigured" /\ vsigns[3].state = "ConfigInProgress"

\* No sign replied, and every sign processed the message.
C31_WitnessNone ==
  /\ Offered(DataChunksSent(0))
  /\ result = "Raw" /\ Reply(1) = None
  /\ Changed = {1, 2, 3}

\* A sign panicked after the sign before it had processed the message.
C31_WitnessPanic ==
  /\ OfferedAny
  /\ result = "Panic"
  /\ \E k \in 2..3 : PanickedIn(k) /\ (k - 1) \in Changed

\* -------------------------------------------------------------------- C32

\* C32: for every message passed to a VirtualSignBus, the unaddressed
\* SendData and DataChunksSent included, at most one virtual sign changes any
\* of its fields.
C32_AtMostOneSignChanges ==
  OfferedAny => Cardinality(Changed) <= 1

\* An addressed message changes only signs of its address.
AddressedChangesOwnSigns ==
  OfferedAny /\ "addr" \in DOMAIN Msg(1) =>
    \A k \in Changed : pre[k].address = Msg(1).addr

\* One SendData was stored as the configuration of the signs of address 3
\* and of address 6, both waiting for one.
SendDataConfiguresTwoSigns ==
  /\ Offered(SendData(0, to_bytes("Max3000Dash30x7")))
  /\ result = "Raw"
  /\ pre[1].state = "ConfigInProgress" /\ pre[2].state = "ConfigInProgress"
  /\ pre[1].sign_type = "None" /\ pre[2].sign_type = "None"
  /\ vsigns[1].sign_type = "Max3000Dash30x7"
  /\ vsigns[2].sign_type = "Max3000Dash30x7"
  /\ vsigns[2].address = 6
  /\ {1, 2} \subseteq Changed

\* ------------------------------------------------ observations on a port

\* The bytes the i-th call on the port took from the reader.
Taken(i) == SubSeq(port.data, port.ops[i].from + 1, port.ops[i].to)

\* The i-th call on the port was a read on which no read of a byte failed.
ReadThrough(i) ==
  /\ port.ops[i].op = "read"
  /\ \/ port.ops[i].good < 0
     \/ port.ops[i].good >= port.ops[i].to - port.ops[i].from
          + (IF Taken(i) # <<>> /\ Taken(i)[Len(Taken(i))] = LF THEN 0 ELSE 1)

\* The frames of which PortLines holds the CRLF-terminated line.
LineFrames ==
  {Frame_from(ReportState(3, "Unconfigured")), Frame_from(AckOperation(3, "ReceiveConfig"))}

\* -------------------------------------------------------------------- C34

\* C34: Frame::read consumes the reader's bytes up to and including the
\* first line feed, or to the end of the input, and not one byte more, and
\* returns Frame::from_bytes of them; so successive calls on a stream of
\* several CRLF-terminated frames return those frames in order with nothing
\* lost. A failed read yields an Io error, an empty or malformed line
\* InvalidFrame.
C34_ReadTakesOneLine ==
  bus = "none" /\ port.ops # <<>> =>
    /\ \A i \in 1..Len(port.ops) :
         /\ port.ops[i].op = "read"
         /\ port.ops[i].from = (IF i = 1 THEN 0 ELSE port.ops[i - 1].to)
         /\ port.ops[i].result = IoError <=> ~ReadThrough(i)
         /\ ReadThrough(i) =>
              /\ \A j \in 1..(Len(Taken(i)) - 1) : Taken(i)[j] # LF
              /\ \/ Taken(i) # <<>> /\ Taken(i)[Len(Taken(i))] = LF
                 \/ port.ops[i].to = Len(port.data)
              /\ port.ops[i].result = Frame_from_bytes(Taken(i))
              /\ (Taken(i) \in {<<>>, <<LF>>, <<CR, LF>>} \/ ~RE_matches(Taken(i))) =>
                   port.ops[i].result = InvalidFrame(Taken(i))
    /\ port.offset = port.ops[Len(port.ops)].to
    /\ \A fs \in UNION {[1..n -> LineFrames] : n \in 1..2} :
         (/\ port.data = Concat([k \in 1..Len(fs) |-> Frame_to_bytes_with_newline(fs[k])])
          /\ \A i \in 1..Len(port.ops) : ReadThrough(i)) =>
           \A i \in 1..Len(port.ops) :
             IF i <= Len(fs) THEN port.ops[i].result = fs[i]
             ELSE port.ops[i].result = InvalidFrame(<<>>)

\* Two calls on a stream of two frames returned the first and then the second.
C34_Witness ==
  /\ bus = "none"
  /\ port.data = Frame_to_bytes_with_newline(Frame_from(AckOperation(3, "ReceiveConfig")))
                   \o Frame_to_bytes_with_newline(Frame_from(ReportState(3, "Unconfigured")))
  /\ Len(port.ops) = 2
  /\ port.ops[1].result = Frame_from(AckOperation(3, "ReceiveConfig"))
  /\ port.ops[2].result = Frame_from(ReportState(3, "Unconfigured"))
  /\ port.offset = Len(port.data)

\* A frame without its newline was read to the end of the input.
C34_WitnessEndOfInput ==
  /\ bus = "none"
  /\ Len(port.ops) = 2
  /\ port.ops[2].result = Frame_from(Hello(3))
  /\ port.ops[2].from > 0
  /\ port.offset = Len(port.data)

\* A read failed after two bytes: Io, and the next call went on after them.
C34_WitnessIo ==
  /\ bus = "none"
  /\ Len(port.ops) = 2
  /\ port.ops[1].result = IoError /\ port.ops[1].to = 2
  /\ port.ops[2].from = 2 /\ port.ops[2].result # IoError

\* An empty line gave InvalidFrame and the frame after it was read.
C34_WitnessEmptyLine ==
  /\ bus = "none"
  /\ Len(port.ops) = 2
  /\ port.ops[1].result = InvalidFrame(<<CR, LF>>)
  /\ port.ops[2].result = Frame_from(ReportState(3, "Unconfigured"))

\* -------------------------------------------------------------------- C33

\* The calls on a SerialSignBus that went on to read: a response was expected
\* and the frame was written.
SerialWrites == SelectSeq(port.ops, LAMBDA o : o.op = "write")
SerialReads == SelectSeq(port.ops, LAMBDA o : o.op = "read")
ReadingCalls ==
  SelectSeq([k \in 1..Len(log) |-> k],
            LAMBDA k : response_expected(log[k].msg) /\ SerialWrites[k].ok)

\* Where in the history of the port the write of the k-th call stands.
WriteAt(k) == k + Cardinality({i \in 1..Len(ReadingCalls) : ReadingCalls[i] < k})

\* C33: SerialSignBus::process_message writes the message's frame to the port
\* first and then reads exactly one reply frame if and only if the message is
\* Hello, QueryState or RequestOperation; for every other message it returns
\* Ok(None) without reading; so over any sequence of messages the replies are
\* taken from the port in order, one per request that expects one. (A call
\* whose write fails returns the error and reads nothing.)
C33_WriteThenReadOneReply ==
  bus = "serial" =>
    /\ Len(SerialWrites) = Len(log)
    /\ Len(SerialReads) = Len(ReadingCalls)
    /\ Len(port.ops) = Len(log) + Len(ReadingCalls)
    /\ \A k \in 1..Len(log) :
         LET w == port.ops[WriteAt(k)]
             reads == k \in {ReadingCalls[i] : i \in 1..Len(ReadingCalls)}
         IN /\ w.op = "write"
            /\ w.bytes = Frame_to_bytes_with_newline(Frame_from(log[k].msg))
            /\ reads <=> (w.ok /\ log[k].msg.type \in {"Hello", "QueryState", "RequestOperation"})
            /\ reads => port.ops[WriteAt(k) + 1].op = "read"
            /\ ~reads => (WriteAt(k) = Len(port.ops) \/ port.ops[WriteAt(k) + 1].op = "write")
            /\ ~reads /\ w.ok => log[k].reply = None
            /\ ~w.ok => log[k].reply = BusErr
    /\ \A i \in 1..Len(SerialReads) :
         LET r == SerialReads[i]
         IN /\ r = port.ops[WriteAt(ReadingCalls[i]) + 1]
            /\ r.from = (IF i = 1 THEN 0 ELSE SerialReads[i - 1].to)
            /\ log[ReadingCalls[i]].reply =
                 (IF IsError(r.result) THEN BusErr ELSE Message_from(r.result))
    /\ port.offset = (IF SerialReads = <<>> THEN 0 ELSE SerialReads[Len(SerialReads)].to)

\* Three calls, the second of which expects no reply: the two replies on the
\* port went to the first and the third.
C33_Witness ==
  /\ bus = "serial"
  /\ Len(log) = 3
  /\ log[1] = [msg |-> Hello(3), reply |-> ReportState(3, "Unconfigured")]
  /\ log[2] = [msg |-> SendData(0, <<1, 16>>), reply |-> None]
  /\ log[3] = [msg |-> RequestOperation(3, "ReceiveConfig"),
               reply |-> AckOperation(3, "ReceiveConfig")]
  /\ Len(port.ops) = 5
  /\ port.ops[3].op = "write" /\ port.ops[4].op = "write" /\ port.ops[5].op = "read"

\* A write failed on a request that expects a reply: nothing was read, and
\* the reply went to the next request.
C33_WitnessWriteFails ==
  /\ bus = "serial"
  /\ Len(log) = 2
  /\ log[1] = [msg |-> QueryState(3), reply |-> BusErr]
  /\ log[2] = [msg |-> QueryState(3), reply |-> ReportState(3, "Unconfigured")]
  /\ Len(port.ops) = 3

\* A line that is no frame was read as the reply: an error, and the frame
\* after it went to the next request.
C33_WitnessBadReply ==
  /\ bus = "serial"
  /\ Len(log) = 2
  /\ log[1] = [msg |-> Hello(3), reply |-> BusErr]
  /\ port.ops[1].ok /\ port.ops[2].result = InvalidFrame(<<Colon, 48, 49, CR, LF>>)
  /\ log[2].reply = ReportState(3, "Unconfigured")

\* -------------------------------------------------------------------- C35

\* What stands at place i of the history; nothing before the first place and
\* after the last.
OpAt(i) == IF i \in 1..Len(port.ops) THEN port.ops[i] ELSE [op |-> "none"]

\* C35: Odk::process_message performs in order: read one frame from the
\* port, convert it to a Message, pass it to the bus, and write a frame back
\* to the port if and only if the bus returned Some(reply). If the read
\* fails the bus is never invoked and the error is of kind Communication; if
\* the bus fails nothing is written and the error is of kind Bus.
C35_OdkReadBusWrite ==
  bus = "odk" /\ port.ops # <<>> =>
    /\ OpAt(1).op = "read"
    /\ OpAt(Len(port.ops)).op = "return" /\ OpAt(Len(port.ops)).result = result
    /\ \A i \in 1..Len(port.ops) :
         LET o == OpAt(i)
             next == OpAt(i + 1)
         IN CASE o.op = "read" ->
                   /\ OpAt(i - 1).op \in {"none", "return"}
                   /\ IF IsError(o.result)
                      THEN next = ReturnOp("Communication")
                      ELSE next.op = "bus" /\ next.msg = Message_from(o.result)
              [] o.op = "bus" ->
                   /\ OpAt(i - 1).op = "read"
                   /\ IF o.reply = BusErr THEN next = ReturnOp("Bus")
                      ELSE IF o.reply = None THEN next = ReturnOp("Ok")
                      ELSE /\ next.op = "write"
                           /\ next.bytes = Frame_to_bytes_with_newline(Frame_from(o.reply))
              [] o.op = "write" ->
                   /\ OpAt(i - 1).op = "bus"
                   /\ OpAt(i - 1).reply \notin {None, BusErr}
                   /\ next = ReturnOp(IF o.ok THEN "Ok" ELSE "Communication")
              [] o.op = "return" ->
                   /\ next.op \in {"none", "read"}
                   /\ o.result \in {"Ok", "Communication", "Bus"}
                   /\ o.result = "Bus" => OpAt(i - 1).op = "bus"

\* Hello was read, passed to the bus, and the bus's reply written back.
C35_Witness ==
  /\ bus = "odk"
  /\ Len(port.ops) = 4
  /\ port.ops[1].op = "read" /\ port.ops[1].result = Frame_from(Hello(3))
  /\ port.ops[2] = BusOp(Hello(3), ReportState(3, "Unconfigured"))
  /\ port.ops[3] = WriteOp(Frame_from(ReportState(3, "Unconfigured")), TRUE)
  /\ port.ops[4] = ReturnOp("Ok")

\* The read failed: the call ended in Communication with the bus not invoked.
C35_WitnessReadFails ==
  /\ bus = "odk"
  /\ Len(port.ops) = 2
  /\ port.ops[1].result = IoError
  /\ result = "Communication"

\* The bus failed: the call ended in Bus with nothing written.
C35_WitnessBusFails ==
  /\ bus = "odk"
  /\ Len(port.ops) = 3
  /\ port.ops[2] = BusOp(Hello(3), BusErr)
  /\ result = "Bus"

\* The bus returned None for DataChunksSent: nothing was written, and the
\* next call read the next frame.
C35_WitnessNoReply ==
  /\ bus = "odk"
  /\ \E i \in 1..Len(port.ops) :
       /\ OpAt(i) = BusOp(DataChunksSent(1), None)
       /\ OpAt(i + 1) = ReturnOp("Ok")
       /\ OpAt(i + 2).op = "read" /\ OpAt(i + 2).result = Frame_from(Hello(3))

\* -------------------------------------------------------------------- C36

\* C36: in every reachable state of a VirtualSign, state = Unconfigured
\* implies that the page list and the buffered pixel data are empty, the
\* chunk counter is 0, width and height are 0 and sign_type is None; and the
\* page list is empty whenever the state is ConfigInProgress, ConfigReceived
\* or ConfigFailed.
C36_UnconfiguredIsCleared ==
  bus = "sign" =>
    /\ Now.state = "Unconfigured" =>
         /\ Now.pages = <<>> /\ Now.pending_data = <<>>
         /\ Now.data_chunks = 0
         /\ Now.width = 0 /\ Now.height = 0
         /\ Now.sign_type = "None"
    /\ Now.state \in {"ConfigInProgress", "ConfigReceived", "ConfigFailed"} =>
         Now.pages = <<>>

\* A sign that held a page and its configuration is Unconfigured again.
C36_Witness ==
  /\ bus = "sign" /\ Len(log) = 1
  /\ Was.pages # <<>> /\ Was.width = 30
  /\ Now.state = "Unconfigured"

\* A sign that was reset with pages takes a new configuration.
C36_WitnessConfigAgain ==
  /\ Handled(RequestOperation(3, "ReceiveConfig"))
  /\ Was.state = "ConfigFailed" /\ Was.width = 12
  /\ Now.state = "ConfigInProgress"

\* -------------------------------------------------------------------- C37

\* C37: whenever a VirtualSign enters ConfigInProgress or PixelsInProgress,
\* on an acked ReceiveConfig or ReceivePixels, its chunk counter is 0 and
\* its buffered pixel data is empty, so that the count compared on the next
\* DataChunksSent is that of the chunks accepted since the ack, also on a
\* retry after ConfigFailed or PixelsFailed.
C37_TransferStartsFromZero ==
  /\ (Returned /\ Reply(1) \in {AckOperation(Was.address, "ReceiveConfig"),
                              AckOperation(Was.address, "ReceivePixels")}) =>
       /\ Now.state \in {"ConfigInProgress", "PixelsInProgress"}
       /\ Now.data_chunks = 0
       /\ Now.pending_data = <<>>
  /\ (Returned /\ Was.state # Now.state
        /\ Now.state \in {"ConfigInProgress", "PixelsInProgress"}) =>
       Reply(1) \in {AckOperation(Was.address, "ReceiveConfig"),
                     AckOperation(Was.address, "ReceivePixels")}
  /\ (bus = "sign" /\ result # "Panic"
        /\ Now.state \notin {"PixelsInProgress", "ReadyToReset"}) =>
       Now.pending_data = <<>>
  /\ (bus = "sign" /\ result # "Panic"
        /\ Now.state \notin {"ConfigInProgress", "PixelsInProgress",
                                      "ReadyToReset"}) =>
       Now.data_chunks = 0

\* ReceivePixels was acked on a retry after PixelsFailed.
C37_Witness ==
  /\ Handled(RequestOperation(3, "ReceivePixels"))
  /\ Reply(1) = AckOperation(3, "ReceivePixels")
  /\ Was.state = "PixelsFailed"
  /\ Now.state = "PixelsInProgress" /\ Now.data_chunks = 0 /\ Now.pending_data = <<>>

\* ReceiveConfig was acked on a retry after ConfigFailed.
C37_WitnessConfig ==
  /\ Handled(RequestOperation(3, "ReceiveConfig"))
  /\ Reply(1) = AckOperation(3, "ReceiveConfig")
  /\ Was.state = "ConfigFailed" /\ Was.sign_type = "Max3000Dash30x7"
  /\ Now.state = "ConfigInProgress" /\ Now.data_chunks = 0

\* A failed transfer of two chunks left the sign in PixelsFailed.
C37_WitnessFailed ==
  /\ Handled(DataChunksSent(1))
  /\ Was.state = "PixelsInProgress" /\ Was.data_chunks = 2
  /\ Now.state = "PixelsFailed" /\ Now.data_chunks = 0

\* -------------------------------------------------------------------- C38

\* The width and height a sign takes from an accepted configuration chunk.
ChunkDims(d) ==
  IF d[1] = 4
  THEN {[width |-> w.value, height |-> d[5]] :
          w \in {x \in SumU8(d[6], d[7], d[8], d[9]) : ~x.panic}}
  ELSE IF d[1] = 8 THEN {[width |-> d[8], height |-> d[6]]}
  ELSE {}

HasChunkDims(s) ==
  \E d \in ConfigBlocks : [width |-> s.width, height |-> s.height] \in ChunkDims(d)

\* C38: a VirtualSign is in state ConfigReceived only if, since it last was
\* Unconfigured, it accepted at least one 16-byte configuration chunk (first
\* byte 0x04 or 0x08), so that in ConfigReceived its width and height are the
\* values taken from such a chunk.
C38_ConfigReceivedHasConfig ==
  (bus = "sign" /\ Now.state = "ConfigReceived") => HasChunkDims(Now)

\* What does hold: a sign that reaches ConfigReceived on a DataChunksSent
\* with a count of at least one has the dimensions of an accepted chunk.
ConfigReceivedAfterChunk ==
  \A c \in 1..MaxChunks :
    (Handled(DataChunksSent(c)) /\ Was.state = "ConfigInProgress"
       /\ Now.state = "ConfigReceived") => HasChunkDims(Now)

\* The sign went from Unconfigured to ConfigReceived on ReceiveConfig and
\* DataChunksSent(0): it is configured with no sign type and no dimensions.
ConfigReceivedWithoutConfig ==
  /\ Handled(DataChunksSent(0))
  /\ Was = [VirtualSign_new(3) EXCEPT !.state = "ConfigInProgress"]
  /\ Now = [VirtualSign_new(3) EXCEPT !.state = "ConfigReceived"]

\* -------------------------------------------------------------------- C39

\* The call flushed buffered pixel data of a sign with both dimensions set.
Flushes ==
  /\ bus = "sign" /\ Len(log) = 1
  /\ \/ Msg(1).type = "DataChunksSent"
     \/ Msg(1).type = "SendData" /\ Msg(1).offset = 0 /\ Was.state = "PixelsInProgress"
  /\ Was.pending_data # <<>>
  /\ Was.width > 0 /\ Was.height > 0

\* C39: VirtualSign::process_message completes normally for every message in
\* every reachable state: whenever buffered pixel data is flushed while width
\* and height are both non-zero, the buffered length equals
\* round_up_16(4 + width * ceil(height / 8)), so building the Page never fails.
C39_FlushNeverFails ==
  Flushes =>
    /\ result # "Panic"
    /\ Len(Was.pending_data) = RoundUp16(4 + Was.width * CeilDiv8(Was.height))

\* What does hold: a flush of an empty buffer, or with a dimension of zero,
\* adds no page, and a flush of one page's bytes adds that page.
FlushAddsPageOrNothing ==
  (Returned /\ (Msg(1).type = "DataChunksSent"
                  \/ (Msg(1).type = "SendData" /\ Msg(1).offset = 0
                        /\ Was.state = "PixelsInProgress"))) =>
    Now.pages = PagesFlushed(Was)

\* What does hold: a call panics only in a flush of a buffer that is not one
\* page long, or in the width sum of a configuration chunk.
PanicsOnlyInFlushOrSum ==
  (bus = "sign" /\ result = "Panic") =>
    \/ Flushes /\ Len(Was.pending_data) # RoundUp16(4 + Was.width * CeilDiv8(Was.height))
    \/ GotConfigChunk /\ Msg(1).data[1] = 4

\* A transfer ended after one chunk of a three-chunk page: the flush panics.
FlushOfShortPagePanics ==
  /\ Flushes /\ result = "Panic"
  /\ Was.width = 30 /\ Was.height = 7 /\ Len(Was.pending_data) = 16

\* -------------------------------------------------------------------- C40

\* The exchanges of ensure_unconfigured: those before the first
\* RequestOperation(operation) of send_data.
EnsureExchanges ==
  {i \in Sent : \A r \in OperationRequests : i < r}

\* The exchanges after the transfer: those after the post-transfer
\* QueryState of the last attempt.
AfterTransfer ==
  {i \in Sent : \E q \in PostTransferQueries :
                  q < i /\ \A r \in OperationRequests : r < q}

\* How many chunks one attempt sends.
RECURSIVE TotalChunks(_, _)
TotalChunks(data, k) ==
  IF k > Len(data) THEN 0 ELSE NumChunks(data[k]) + TotalChunks(data, k + 1)

\* C40: configure terminates for every behaviour of the bus: it performs at
\* most 17 exchanges (at most 5 to reach Unconfigured, then at most 3
\* attempts of RequestOperation, one SendData, DataChunksSent and QueryState)
\* and always ends in Ok, UnexpectedResponse or Bus; send_pages likewise
\* performs at most 3 transfer attempts followed by at most 2 exchanges.
\* Every step of a call is one exchange and a call that has not returned can
\* always take its next step, so the bound on the exchanges is a bound on
\* the call.
C40_ConfigureAndSendPagesTerminate ==
  /\ call.name = "configure" =>
       /\ Len(log) <= 17
       /\ Cardinality(EnsureExchanges) <= 5
       /\ Cardinality(OperationRequests) <= 3
       /\ \A r \in OperationRequests :
            Cardinality({i \in Sent : i >= r /\ AttemptStart(i) = r}) <= 4
       /\ pc = "idle" => result \in {"Ok", "UnexpectedResponse", "Bus"}
  /\ call.name = "send_pages" =>
       /\ Cardinality(OperationRequests) <= 3
       /\ \A r \in OperationRequests :
            Cardinality({i \in Sent \ AfterTransfer : i >= r /\ AttemptStart(i) = r})
              <= 3 + TotalChunks(Data, 1)
       /\ Cardinality(AfterTransfer) <= 2
       /\ Len(log) <= 3 * (3 + TotalChunks(Data, 1)) + 2
       /\ pc = "idle" => result \in {"Automatic", "Manual", "UnexpectedResponse", "Bus"}
  /\ InDataSend =>
       /\ attempts <= MAX_ATTEMPTS
       /\ pc # "idle" => result = "running" /\ ENABLED Steps

\* A configure call that took all 17 exchanges: a reset of five exchanges and
\* three attempts, the last one answered ConfigReceived.
C40_Witness ==
  /\ call.name = "configure" /\ pc = "idle" /\ result = "Ok"
  /\ Len(log) = 17
  /\ Cardinality(EnsureExchanges) = 5
  /\ Cardinality(OperationRequests) = 3

\* A configure call ended by a bus error on its seventeenth exchange.
C40_WitnessBus ==
  /\ call.name = "configure" /\ pc = "idle" /\ result = "Bus"
  /\ Len(log) = 17

\* A send_pages call of two pages that took three attempts and the two
\* exchanges after them.
C40_WitnessSendPages ==
  /\ call.name = "send_pages" /\ Len(call.pages) = 2 /\ pc = "idle"
  /\ result \in {"Automatic", "Manual"}
  /\ Cardinality(OperationRequests) = 3
  /\ Cardinality(AfterTransfer) = 2
  /\ Len(log) = 3 * (3 + TotalChunks(Data, 1)) + 2

====
